---- MODULE Spec2Model ----
(***************************************************************************)
(* Model of the cache-consistent analysis pipeline of aberkan/poisson:     *)
(* the analysis engine (crawler/analyzer/analyzer.go), the prompt registry *)
(* and fingerprint (crawler/analyzer/prompts.go), the response parser and  *)
(* the store contract (lib/datastore_client.go).                           *)
(*                                                                         *)
(* Strings are sequences of one-character strings.  An optional (pointer)  *)
(* field is a set: {} is nil, {v} is a pointer to v.                       *)
(***************************************************************************)
EXTENDS Integers, Sequences, FiniteSets, TLC

(* ------------------------------ bounds --------------------------------- *)

\* number of goroutines / processes that may run analyze concurrently
NumRequests == 2
\* how many analyze calls are started in one behaviour
MaxCalls == 2
\* how many times a template is edited and the process redeployed
MaxEdits == 1
\* the fingerprint is followed modulo 2^FpBits (low bits of the FNV-1a sum)
FpBits == 16

\* number of FetchArticleContent calls followed
MaxFetches == 3

\* store writes per behaviour of the store calls
MaxWrites == 3

\* the largest maxArticles a feed query asks for
MaxArticles == 3

(* --------------------------- string helpers ---------------------------- *)

\* Go's unicode.IsSpace on the characters used here
IsSpace(c) == c \in {" ", "\n", "\t"}

\* strings.HasPrefix
HasPrefix(s, p) == Len(s) >= Len(p) /\ SubSeq(s, 1, Len(p)) = p

\* strings.HasSuffix
HasSuffix(s, p) == Len(s) >= Len(p) /\ SubSeq(s, Len(s) - Len(p) + 1, Len(s)) = p

\* strings.TrimPrefix
TrimPrefix(s, p) == IF HasPrefix(s, p) THEN SubSeq(s, Len(p) + 1, Len(s)) ELSE s

\* strings.TrimSuffix
TrimSuffix(s, p) == IF HasSuffix(s, p) THEN SubSeq(s, 1, Len(s) - Len(p)) ELSE s

\* strings.Index for a one-character needle; 0 stands for Go's -1, positions are 1-based
Index(s, c) ==
    IF \E i \in 1..Len(s) : s[i] = c
    THEN CHOOSE i \in 1..Len(s) : s[i] = c /\ \A j \in 1..(i - 1) : s[j] # c
    ELSE 0

\* strings.LastIndex for a one-character needle; 0 stands for Go's -1
LastIndex(s, c) ==
    IF \E i \in 1..Len(s) : s[i] = c
    THEN CHOOSE i \in 1..Len(s) : s[i] = c /\ \A j \in (i + 1)..Len(s) : s[j] # c
    ELSE 0

\* strings.TrimSpace
TrimSpace(s) ==
    IF \A i \in 1..Len(s) : IsSpace(s[i])
    THEN << >>
    ELSE LET first == CHOOSE i \in 1..Len(s) :
                          ~IsSpace(s[i]) /\ \A j \in 1..(i - 1) : IsSpace(s[j])
             last  == CHOOSE i \in 1..Len(s) :
                          ~IsSpace(s[i]) /\ \A j \in (i + 1)..Len(s) : IsSpace(s[j])
         IN  SubSeq(s, first, last)

\* strings.TrimRight(s, cutset) for a one-character cutset
TrimRight(s, c) ==
    IF \A i \in 1..Len(s) : s[i] = c
    THEN << >>
    ELSE LET last == CHOOSE i \in 1..Len(s) :
                         s[i] # c /\ \A j \in (i + 1)..Len(s) : s[j] = c
         IN  SubSeq(s, 1, last)

\* strings.ReplaceAll for one-character old and new
ReplaceAll(s, old, new) == [i \in 1..Len(s) |-> IF s[i] = old THEN new ELSE s[i]]

\* strings.ToLower on ASCII letters
ToLower(s) ==
    [i \in 1..Len(s) |->
        CASE s[i] = "A" -> "a"
          [] s[i] = "B" -> "b"
          [] s[i] = "C" -> "c"
          [] s[i] = "D" -> "d"
          [] s[i] = "E" -> "e"
          [] s[i] = "F" -> "f"
          [] s[i] = "G" -> "g"
          [] s[i] = "H" -> "h"
          [] s[i] = "I" -> "i"
          [] s[i] = "J" -> "j"
          [] s[i] = "K" -> "k"
          [] s[i] = "L" -> "l"
          [] s[i] = "M" -> "m"
          [] s[i] = "N" -> "n"
          [] s[i] = "O" -> "o"
          [] s[i] = "P" -> "p"
          [] s[i] = "Q" -> "q"
          [] s[i] = "R" -> "r"
          [] s[i] = "S" -> "s"
          [] s[i] = "T" -> "t"
          [] s[i] = "U" -> "u"
          [] s[i] = "V" -> "v"
          [] s[i] = "W" -> "w"
          [] s[i] = "X" -> "x"
          [] s[i] = "Y" -> "y"
          [] s[i] = "Z" -> "z"
          [] OTHER      -> s[i]]

\* strings.Contains
Contains(s, sub) ==
    \E i \in 1..(Len(s) - Len(sub) + 1) : SubSeq(s, i, i + Len(sub) - 1) = sub


(* ------------------------- modes and templates ------------------------- *)

\* const AnalysisModeJoke AnalysisMode = "joke"
AnalysisModeJoke == <<"j", "o", "k", "e">>

\* const AnalysisModeTest AnalysisMode = "test"
AnalysisModeTest == <<"t", "e", "s", "t">>

\* a mode string that is not registered
UnknownMode == <<"x">>

\* the mode arguments analyze is called with
ModeInputs == {AnalysisModeJoke, AnalysisModeTest, UnknownMode}

\* prompts/joke.prompt.md as embedded at build time (two %s verbs: title, content)
JokePromptTemplate == <<"J", ":", "%", "s", " ", "%", "s">>

\* prompts/test.prompt.md as embedded at build time
TestPromptTemplate == <<"T", ":", "%", "s", " ", "%", "s">>

\* template texts an edit of a prompt file can produce
EditedTemplates == {<<"J", "2", ":", "%", "s", " ", "%", "s">>}

\* the byte of each character that occurs in a template
ByteOf(c) ==
    CASE c = "J"  -> 74
      [] c = "T"  -> 84
      [] c = "2"  -> 50
      [] c = ":"  -> 58
      [] c = "%"  -> 37
      [] c = "s"  -> 115
      [] c = " "  -> 32
      [] OTHER    -> 63

VARIABLES
    PromptTemplates,     \* the registry: mode -> [Template]
    edits,               \* number of template edits so far
    AnalysisResults,     \* the analysis store: key -> AnalysisResult
    pc,                  \* per request: where analyze stands
    page,                \* per request: the page argument
    reqMode,             \* per request: the mode argument
    ctxDone,             \* per request: the caller's context is cancelled or expired
    fingerprint,         \* per request: the local variable fingerprint
    result,              \* per request: the local variable result (a set: {} = not yet)
    jsonText,            \* per request: the local variable jsonStr (the parsed-out JSON text)
    ret,                 \* per request: what analyze returned
    llmCalls,            \* per request: LLM client calls made by the current call
    storeReads,          \* per request: store reads issued by the current call
    storeWrites,         \* per request: store writes issued by the current call
    readSeen,            \* per request: what the cache read of the current call returned
    fault,               \* history, per request: the operation of the current call that failed
    calls,               \* number of analyze calls started so far
    lastWriter,          \* history: key -> the request whose write of the key succeeded last
    lastStored           \* history: key -> result stored since the mode's last template edit

VARIABLES
    Pages,               \* the page store: document key -> CrawledPage
    kpc,                 \* key derivation: the step reached
    urlParts,            \* key derivation: the two URL arguments, by their parts
    keyModes,            \* key derivation: the two mode arguments
    knormalized,         \* key derivation: NormalizeURL of the two URLs
    fetchURL,            \* key derivation: AddProtocol of the two normalized URLs
    renormalized,        \* key derivation: NormalizeURL of the two AddProtocol results
    readBack,            \* key derivation: what the reads through the second URL returned
    fpc,                 \* fetch: where FetchArticleContent stands
    furl,                \* fetch: the url argument
    fnormalizedURL,      \* fetch: the local variable normalizedURL
    fret,                \* fetch: what FetchArticleContent returned
    files,               \* the local file cache: file name -> content
    fetched,             \* fetch: the (title, text) extracted from the HTTP response
    httpGets,            \* fetch: HTTP requests made by the current call
    pageReads,           \* fetch: store reads made by the current call
    pageWrites,          \* fetch: store writes made by the current call
    fileWrites,          \* fetch: side-file writes that succeeded in the current call
    ffault,              \* history: the operation of the current fetch that failed
    fcalls,              \* number of FetchArticleContent calls started so far
    now                  \* the clock read by time.Now()

VARIABLES
    pfn,                 \* function calls: the function called last
    pin,                 \* function calls: its arguments
    pout,                \* function calls: what it returned
    fpLog,               \* history: the GeneratePromptFingerprint calls made so far
    sop,                 \* store calls: the store operation called last
    sarg,                \* store calls: its arguments
    sret,                \* store calls: what it returned
    pageLog,             \* history: document key -> the page written last under the key
    analysisLog,         \* history: document key -> the result written last under the key
    swrites,             \* number of store writes made so far
    fdop,                \* feed: the last call, "write" after a page or result was stored
    fdarg,               \* feed: the arguments of the last query
    fdret,               \* feed: what the last query returned
    fdio,                \* feed: the store calls the last query made
    cpc,                 \* command: the step reached, "exit" when the process has ended
    crun,                \* command: "rss" for a run with --rss, "url" for a run with --url
    cmode,               \* command: the prompt mode of the run
    citems,              \* command: the links of the items of the RSS feed, in feed order
    cmax,                \* command: maxArticles
    ci,                  \* command: the index of the loop that runs
    cpages,              \* command: the pages fetched so far, in the order fetched
    cfetchErrors,        \* command: the links whose fetch failed, in the order tried
    crss,                \* command: what FetchRSSArticles returned
    cexit,               \* command: "ok" or "fatal" once the process has ended
    cattempts,           \* history: the FetchArticleContent calls, each with its link and outcome
    canalyzed            \* history: the Analyze calls, each with its page and outcome

\* the state of the analyze calls, without the analysis store
analyzeVars == <<PromptTemplates, edits,
                 pc, page, reqMode, ctxDone, fingerprint, result, jsonText, ret, llmCalls,
                 storeReads, storeWrites, readSeen, fault, calls, lastWriter, lastStored>>

\* the state of the key derivation steps
keyVars == <<kpc, urlParts, keyModes, knormalized, fetchURL, renormalized, readBack>>

\* the state of the fetch calls, without the page store
fetchVars == <<fpc, furl, fnormalizedURL, fret, files, fetched, httpGets, pageReads,
               pageWrites, fileWrites, ffault, fcalls, now>>

\* the state of the single function calls
pureVars == <<pfn, pin, pout, fpLog>>

\* the state of the single store calls
storeVars == <<sop, sarg, sret, pageLog, analysisLog, swrites>>

\* the state of the feed queries
feedVars == <<fdop, fdarg, fdret, fdio>>

\* the state of a run of the crawler command
batchVars == <<cpc, crun, cmode, citems, cmax, ci, cpages, cfetchErrors, crss, cexit, cattempts,
               canalyzed>>

vars == <<AnalysisResults, Pages, analyzeVars, keyVars, fetchVars, pureVars, storeVars,
          feedVars, batchVars>>

Requests == 1..NumRequests

(* ------------------------------ fingerprint ---------------------------- *)

\* bitwise exclusive or of two naturals
RECURSIVE Xor(_, _)
Xor(a, b) ==
    IF a = 0 THEN b
    ELSE IF b = 0 THEN a
    ELSE (((a % 2) + (b % 2)) % 2) + (2 * Xor(a \div 2, b \div 2))

\* the low FpBits bits of the 64-bit FNV offset basis 0xcbf29ce484222325 (0x222325 = 2237221)
FnvOffset64 == 2237221 % (2 ^ FpBits)

\* the low bits of the 64-bit FNV prime 0x100000001b3
FnvPrime64 == 435

\* hash/fnv New64a + Write + Sum64, followed modulo 2^FpBits
RECURSIVE Fnv64a(_, _)
Fnv64a(h, bytes) ==
    IF bytes = << >> THEN h
    ELSE Fnv64a((Xor(h, ByteOf(Head(bytes))) * FnvPrime64) % (2 ^ FpBits), Tail(bytes))

\* variant of GeneratePromptFingerprint without the registry check
GeneratePromptFingerprint_NoRegistryCheck(mode) ==
    IF mode \notin DOMAIN PromptTemplates
    THEN [fp |-> Fnv64a(FnvOffset64, << >>), err |-> FALSE]
    ELSE [fp |-> Fnv64a(FnvOffset64, PromptTemplates[mode].Template), err |-> FALSE]

\* variant of GeneratePromptFingerprint that hashes the mode name ahead of the template
GeneratePromptFingerprint_HashesMode(mode) ==
    IF mode \notin DOMAIN PromptTemplates
    THEN [fp |-> 0, err |-> TRUE]
    ELSE [fp |-> Fnv64a(Fnv64a(FnvOffset64, mode), PromptTemplates[mode].Template),
          err |-> FALSE]

\* GeneratePromptFingerprint: err is TRUE for a mode that is not in the registry
GeneratePromptFingerprint(mode) ==
    IF mode \notin DOMAIN PromptTemplates
    THEN [fp |-> 0, err |-> TRUE]
    ELSE [fp |-> Fnv64a(FnvOffset64, PromptTemplates[mode].Template), err |-> FALSE]

(* -------------------------------- prompt ------------------------------- *)

\* const maxContentLength = 8000
maxContentLength == 8000

\* the literal appended to truncated content
TruncationMarker ==
    <<".", ".", ".", " ", "[", "c", "o", "n", "t", "e", "n", "t", " ",
      "t", "r", "u", "n", "c", "a", "t", "e", "d", "]">>

\* fmt.Sprintf(template, args...) for %s verbs; a verb without argument prints %!s(MISSING)
RECURSIVE Sprintf(_, _)
Sprintf(template, args) ==
    IF template = << >> THEN << >>
    ELSE IF Len(template) >= 2 /\ template[1] = "%" /\ template[2] = "s"
         THEN IF args = << >>
              THEN <<"%", "!", "s", "(", "M", "I", "S", "S", "I", "N", "G", ")">>
                       \o Sprintf(SubSeq(template, 3, Len(template)), args)
              ELSE Head(args) \o Sprintf(SubSeq(template, 3, Len(template)), Tail(args))
         ELSE <<Head(template)>> \o Sprintf(Tail(template), args)

\* AddBodyToPrompt
AddBodyToPrompt(template, title, body) == Sprintf(template, <<title, body>>)

\* GeneratePrompt: err is TRUE for a mode that is not in the registry
GeneratePrompt(mode, title, content) ==
    IF mode \notin DOMAIN PromptTemplates
    THEN [prompt |-> << >>, err |-> TRUE]
    ELSE LET truncatedContent ==
                 IF Len(content) > maxContentLength
                 THEN SubSeq(content, 1, maxContentLength) \o TruncationMarker
                 ELSE content
         IN  [prompt |-> AddBodyToPrompt(PromptTemplates[mode].Template, title, truncatedContent),
              err    |-> FALSE]

(* --------------------------- response parser --------------------------- *)

\* the backquote character U+0060 (written as a symbol: the lexer rejects it in a string)
Backquote == "BQ"

\* the opening fence of a labeled code block
FenceJson == <<Backquote, Backquote, Backquote, "j", "s", "o", "n">>

\* the fence of an unlabeled code block, also the closing fence
Fence == <<Backquote, Backquote, Backquote>>

\* variant of parseJSONResponse that ends the object at the first closing brace
parseJSONResponse_FirstClose(rawResponse) ==
    LET trimmed  == TrimSpace(rawResponse)
        unfenced == IF HasPrefix(trimmed, FenceJson)
                    THEN TrimSuffix(TrimPrefix(trimmed, FenceJson), Fence)
                    ELSE IF HasPrefix(trimmed, Fence)
                         THEN TrimSuffix(TrimPrefix(trimmed, Fence), Fence)
                         ELSE trimmed
        response == TrimSpace(unfenced)
        startIdx == Index(response, "{")
        endIdx   == Index(response, "}")
    IN  IF startIdx = 0 \/ endIdx = 0 \/ startIdx >= endIdx
        THEN [json |-> << >>, err |-> TRUE]
        ELSE [json |-> SubSeq(response, startIdx, endIdx), err |-> FALSE]

\* variant of parseJSONResponse that rejects a code block whose fence is not closed
parseJSONResponse_StrictFence(rawResponse) ==
    LET trimmed  == TrimSpace(rawResponse)
        unfenced == IF HasPrefix(trimmed, FenceJson)
                    THEN TrimSuffix(TrimPrefix(trimmed, FenceJson), Fence)
                    ELSE IF HasPrefix(trimmed, Fence)
                         THEN TrimSuffix(TrimPrefix(trimmed, Fence), Fence)
                         ELSE trimmed
        response == TrimSpace(unfenced)
        startIdx == Index(response, "{")
        endIdx   == LastIndex(response, "}")
    IN  IF \/ startIdx = 0 \/ endIdx = 0 \/ startIdx >= endIdx
           \/ (HasPrefix(trimmed, Fence) /\ ~HasSuffix(trimmed, Fence))
        THEN [json |-> << >>, err |-> TRUE]
        ELSE [json |-> SubSeq(response, startIdx, endIdx), err |-> FALSE]

\* parseJSONResponse: the span from the first { to the last } of the trimmed, unfenced text
parseJSONResponse(rawResponse) ==
    LET trimmed  == TrimSpace(rawResponse)
        unfenced == IF HasPrefix(trimmed, FenceJson)
                    THEN TrimSuffix(TrimPrefix(trimmed, FenceJson), Fence)
                    ELSE IF HasPrefix(trimmed, Fence)
                         THEN TrimSuffix(TrimPrefix(trimmed, Fence), Fence)
                         ELSE trimmed
        response == TrimSpace(unfenced)
        startIdx == Index(response, "{")
        endIdx   == LastIndex(response, "}")
    IN  IF startIdx = 0 \/ endIdx = 0 \/ startIdx >= endIdx
        THEN [json |-> << >>, err |-> TRUE]
        ELSE [json |-> SubSeq(response, startIdx, endIdx), err |-> FALSE]

(* ------------------------------ converters ----------------------------- *)

\* The members of a JSON object are written as one symbol; JsonMembers gives the
\* members a symbol stands for.  confidenceIsInt and resultIsString tell whether
\* the JSON value of that member has the type the Go struct field needs.
JsonMembers(sym) ==
    CASE sym = "M1" -> [is_joke |-> TRUE, confidence |-> 85,
                         reasoning |-> <<"J", "o", "k", "e">>,
                         confidenceIsInt |-> TRUE, resultIsString |-> TRUE]
      [] sym = "M2" -> [is_joke |-> FALSE, confidence |-> 90,
                         reasoning |-> <<"n", "e", "w", "s">>,
                         confidenceIsInt |-> TRUE, resultIsString |-> TRUE]
      [] sym = "M3" -> [is_joke |-> TRUE, confidence |-> 150,
                         reasoning |-> <<"f", "u", "n">>,
                         confidenceIsInt |-> TRUE, resultIsString |-> TRUE]
      [] sym = "M4" -> [is_joke |-> TRUE, confidence |-> 0,
                         reasoning |-> << >>,
                         confidenceIsInt |-> FALSE, resultIsString |-> FALSE]
      [] sym = "M5" -> [is_joke |-> FALSE, confidence |-> 75,
                         reasoning |-> <<"a", " ", "J", "O", "K", "E">>,
                         confidenceIsInt |-> TRUE, resultIsString |-> TRUE]
      [] sym = "M6" -> [is_joke |-> TRUE, confidence |-> -10,
                         reasoning |-> <<"J", "o", "k", "e">>,
                         confidenceIsInt |-> TRUE, resultIsString |-> TRUE]
      [] sym = "M7" -> [is_joke |-> FALSE, confidence |-> 60,
                         reasoning |-> <<"P", "r", "a", "n", "k">>,
                         confidenceIsInt |-> TRUE, resultIsString |-> TRUE]
      [] sym = "M8" -> [is_joke |-> FALSE, confidence |-> 70,
                         reasoning |-> <<"s", "a", "t", "i", "r", "i", "c", "a", "l">>,
                         confidenceIsInt |-> TRUE, resultIsString |-> TRUE]
      [] sym = "M9" -> [is_joke |-> FALSE, confidence |-> 55,
                         reasoning |-> <<"H", "u", "m", "o", "r", "o", "u", "s">>,
                         confidenceIsInt |-> TRUE, resultIsString |-> TRUE]
      [] sym = "M10" -> [is_joke |-> FALSE, confidence |-> 150,
                         reasoning |-> <<"S", "A", "T", "I", "R", "E">>,
                         confidenceIsInt |-> TRUE, resultIsString |-> TRUE]
      [] sym = "M11" -> [is_joke |-> FALSE, confidence |-> -5,
                         reasoning |-> <<"n", "e", "w", "s">>,
                         confidenceIsInt |-> TRUE, resultIsString |-> TRUE]
      [] sym = "M12" -> [is_joke |-> TRUE, confidence |-> 40,
                         reasoning |-> <<"n", "e", "w", "s">>,
                         confidenceIsInt |-> TRUE, resultIsString |-> TRUE]

\* the symbols that stand for the members of a JSON object
MemberSymbols ==
    {"M1", "M2", "M3", "M4", "M5", "M6", "M7", "M8", "M9", "M10", "M11", "M12"}

\* the zero value of every member, for the empty object {}
NoMembers ==
    [is_joke |-> FALSE, confidence |-> 0, reasoning |-> << >>,
     confidenceIsInt |-> TRUE, resultIsString |-> TRUE]

\* the text without its whitespace characters
RECURSIVE DropSpace(_)
DropSpace(s) ==
    IF s = << >> THEN << >>
    ELSE IF IsSpace(Head(s)) THEN DropSpace(Tail(s))
         ELSE <<Head(s)>> \o DropSpace(Tail(s))

\* variant of the decoder that stops after the first JSON object of the text
JsonObject_FirstObject(jsonStr) ==
    LET t == DropSpace(jsonStr)
    IN  IF Len(t) >= 2 /\ t[1] = "{" /\ t[2] = "}"
        THEN [members |-> NoMembers, err |-> FALSE]
        ELSE IF Len(t) >= 3 /\ t[1] = "{" /\ t[3] = "}" /\ t[2] \in MemberSymbols
             THEN [members |-> JsonMembers(t[2]), err |-> FALSE]
             ELSE [members |-> NoMembers, err |-> TRUE]

\* encoding/json: the text is one JSON object; err is TRUE for malformed JSON
JsonObject(jsonStr) ==
    LET t == DropSpace(jsonStr)
    IN  IF t = <<"{", "}">>
        THEN [members |-> NoMembers, err |-> FALSE]
        ELSE IF Len(t) = 3 /\ t[1] = "{" /\ t[3] = "}" /\ t[2] \in MemberSymbols
             THEN [members |-> JsonMembers(t[2]), err |-> FALSE]
             ELSE [members |-> NoMembers, err |-> TRUE]

\* the keywords whose presence in the reasoning counts as a mention of jokes
JokeKeywords ==
    { <<"j", "o", "k", "e">>, <<"p", "r", "a", "n", "k">>, <<"s", "a", "t", "i", "r", "e">>,
      <<"s", "a", "t", "i", "r", "i", "c", "a", "l">>, <<"h", "u", "m", "o", "r">>,
      <<"h", "u", "m", "o", "r", "o", "u", "s">> }

\* variant of the joke-mode converter as the earlier design had it: the confidence of
\* a "not a joke" verdict is inverted, and the percentage is always set
ProcessJokeResponse_Inverts(jsonStr, fp) ==
    LET obj == JsonObject(jsonStr)
        m   == obj.members
        inverted   == IF m.is_joke THEN m.confidence ELSE 100 - m.confidence
        confidence == IF inverted < 0 THEN 0
                      ELSE IF inverted > 100 THEN 100 ELSE inverted
    IN  IF obj.err \/ ~m.confidenceIsInt
        THEN [result |-> {}, err |-> TRUE]
        ELSE [result |-> {[Mode              |-> AnalysisModeJoke,
                           JokePercentage    |-> {confidence},
                           JokeReasoning     |-> {m.reasoning},
                           PromptFingerprint |-> fp]},
              err    |-> FALSE]

\* ProcessJokeResponse(jsonStr, fingerprint): the joke-mode converter of the registry
ProcessJokeResponse(jsonStr, fp) ==
    LET obj == JsonObject(jsonStr)
        m   == obj.members
        reasoningLower == ToLower(m.reasoning)
        hasJokeMention == m.is_joke \/ \E kw \in JokeKeywords : Contains(reasoningLower, kw)
        confidence == IF m.confidence < 0 THEN 0
                      ELSE IF m.confidence > 100 THEN 100 ELSE m.confidence
    IN  IF obj.err \/ ~m.confidenceIsInt
        THEN [result |-> {}, err |-> TRUE]
        ELSE [result |-> {[Mode              |-> AnalysisModeJoke,
                           JokePercentage    |-> IF hasJokeMention THEN {confidence} ELSE {},
                           JokeReasoning     |-> {m.reasoning},
                           PromptFingerprint |-> fp]},
              err    |-> FALSE]

\* variant of ProcessTestResponse that leaves PromptFingerprint at its zero value
ProcessTestResponse_NoFingerprint(jsonStr, fp) ==
    LET obj == JsonObject(jsonStr)
    IN  IF obj.err \/ ~obj.members.resultIsString
        THEN [result |-> {}, err |-> TRUE]
        ELSE [result |-> {[Mode              |-> AnalysisModeTest,
                           JokePercentage    |-> {},
                           JokeReasoning     |-> {},
                           PromptFingerprint |-> 0]},
              err    |-> FALSE]

\* ProcessTestResponse(jsonStr, fingerprint): the test-mode converter of the registry
ProcessTestResponse(jsonStr, fp) ==
    LET obj == JsonObject(jsonStr)
    IN  IF obj.err \/ ~obj.members.resultIsString
        THEN [result |-> {}, err |-> TRUE]
        ELSE [result |-> {[Mode              |-> AnalysisModeTest,
                           JokePercentage    |-> {},
                           JokeReasoning     |-> {},
                           PromptFingerprint |-> fp]},
              err    |-> FALSE]

\* config.ProcessResponse of PromptTemplates[mode]
ProcessResponse(mode, jsonStr, fp) ==
    IF mode = AnalysisModeJoke
    THEN ProcessJokeResponse(jsonStr, fp)
    ELSE ProcessTestResponse(jsonStr, fp)

(* --------------------------------- store ------------------------------- *)

\* normalizeURL: drop a leading https:// and then a leading http://, cut at the first ?
normalizeURL(url) ==
    LET normalized == TrimPrefix(TrimPrefix(url, <<"h", "t", "t", "p", "s", ":", "/", "/">>),
                                 <<"h", "t", "t", "p", ":", "/", "/">>)
        idx        == Index(normalized, "?")
    IN  IF idx # 0 THEN SubSeq(normalized, 1, idx - 1) ELSE normalized

\* variant of UrlToCrawledPageKey that leaves the slashes in the key
UrlToCrawledPageKey_KeepsSlashes(url) ==
    LET idx == Index(url, "?")
        cut == IF idx # 0 THEN SubSeq(url, 1, idx - 1) ELSE url
    IN  TrimRight(cut, "/")

\* UrlToCrawledPageKey: cut at the first ?, drop trailing slashes, turn / into _
UrlToCrawledPageKey(url) ==
    LET idx == Index(url, "?")
        cut == IF idx # 0 THEN SubSeq(url, 1, idx - 1) ELSE url
    IN  ReplaceAll(TrimRight(cut, "/"), "/", "_")

\* UrlToAnalysisKey: the page key, ":" and the mode
UrlToAnalysisKey(url, mode) == UrlToCrawledPageKey(url) \o <<":">> \o mode

\* variant of ReadAnalysisResult that looks the entry up under normalizeURL(url):mode
ReadAnalysisResult_OtherKey(GetAnalysisError, done, url, mode) ==
    LET keyName == normalizeURL(url) \o <<":">> \o mode
    IN  IF GetAnalysisError \/ done
        THEN [result |-> {}, found |-> FALSE, err |-> TRUE]
        ELSE IF keyName \in DOMAIN AnalysisResults
             THEN [result |-> {AnalysisResults[keyName]}, found |-> TRUE, err |-> FALSE]
             ELSE [result |-> {}, found |-> FALSE, err |-> FALSE]

\* variant of ReadAnalysisResult that reports a failed read as "not found"
ReadAnalysisResult_ErrorAsMiss(GetAnalysisError, done, url, mode) ==
    LET keyName == UrlToAnalysisKey(url, mode)
    IN  IF GetAnalysisError \/ done
        THEN [result |-> {}, found |-> FALSE, err |-> FALSE]
        ELSE IF keyName \in DOMAIN AnalysisResults
             THEN [result |-> {AnalysisResults[keyName]}, found |-> TRUE, err |-> FALSE]
             ELSE [result |-> {}, found |-> FALSE, err |-> FALSE]

\* ReadAnalysisResult: (result, found, err); a failing store (GetAnalysisError) or a done
\* context is an error
ReadAnalysisResult(GetAnalysisError, done, url, mode) ==
    LET keyName == UrlToAnalysisKey(url, mode)
    IN  IF GetAnalysisError \/ done
        THEN [result |-> {}, found |-> FALSE, err |-> TRUE]
        ELSE IF keyName \in DOMAIN AnalysisResults
             THEN [result |-> {AnalysisResults[keyName]}, found |-> TRUE, err |-> FALSE]
             ELSE [result |-> {}, found |-> FALSE, err |-> FALSE]

\* variant of WriteAnalysisResult that stores under normalizeURL(url):mode
WriteAnalysisResult_OtherKey(CreateAnalysisError, done, url, res) ==
    LET keyName == normalizeURL(url) \o <<":">> \o res.Mode
    IN  IF CreateAnalysisError \/ done
        THEN [store |-> AnalysisResults, err |-> TRUE]
        ELSE [store |-> [k \in DOMAIN AnalysisResults \cup {keyName} |->
                            IF k = keyName THEN res ELSE AnalysisResults[k]],
              err   |-> FALSE]

\* variant of WriteAnalysisResult that creates an entry but never replaces one
WriteAnalysisResult_KeepsExisting(CreateAnalysisError, done, url, res) ==
    LET keyName == UrlToAnalysisKey(url, res.Mode)
    IN  IF CreateAnalysisError \/ done
        THEN [store |-> AnalysisResults, err |-> TRUE]
        ELSE [store |-> [k \in DOMAIN AnalysisResults \cup {keyName} |->
                            IF k \in DOMAIN AnalysisResults THEN AnalysisResults[k] ELSE res],
              err   |-> FALSE]

\* variant of WriteAnalysisResult that stores the entry although it reports an error
WriteAnalysisResult_StoresOnError(CreateAnalysisError, done, url, res) ==
    LET keyName == UrlToAnalysisKey(url, res.Mode)
    IN  [store |-> [k \in DOMAIN AnalysisResults \cup {keyName} |->
                       IF k = keyName THEN res ELSE AnalysisResults[k]],
         err   |-> CreateAnalysisError \/ done]

\* variant of WriteAnalysisResult that puts the entry in place of the whole store
WriteAnalysisResult_DropsOthers(CreateAnalysisError, done, url, res) ==
    LET keyName == UrlToAnalysisKey(url, res.Mode)
    IN  IF CreateAnalysisError \/ done
        THEN [store |-> AnalysisResults, err |-> TRUE]
        ELSE [store |-> [k \in {keyName} |-> res], err |-> FALSE]

\* WriteAnalysisResult: the store after the write and err; a failing store
\* (CreateAnalysisError) or a done context is an error and stores nothing
WriteAnalysisResult(CreateAnalysisError, done, url, res) ==
    LET keyName == UrlToAnalysisKey(url, res.Mode)
    IN  IF CreateAnalysisError \/ done
        THEN [store |-> AnalysisResults, err |-> TRUE]
        ELSE [store |-> [k \in DOMAIN AnalysisResults \cup {keyName} |->
                            IF k = keyName THEN res ELSE AnalysisResults[k]],
              err   |-> FALSE]

(* ------------------------------- inputs -------------------------------- *)

\* page URLs given to analyze
Urls == { <<"x", "/", "a", "?", "y">> }

\* the pages analyze is called with
PageInputs == { [URL |-> u, Title |-> <<"t">>, Content |-> <<"c">>] : u \in Urls }

\* the (page, mode) arguments of the analyze calls
CallInputs == PageInputs \X ModeInputs

\* raw texts the LLM answers with: plain JSON, fenced JSON, no JSON, members of the
\* wrong type, two sibling objects
LlmResponses ==
    { <<"{", "M1", "}">>,
      FenceJson \o <<"\n", "{", "M3", "}", "\n">> \o Fence,
      <<"n", "o">>,
      <<"{", "M4", "}">>,
      <<"{", "M1", "}", " ", "{", "M2", "}">> }

\* LlmClient.Analyze(ctx, prompt): the outcomes (response, err) the client can produce;
\* with a done context the call fails
LlmAnalyze(done, prompt) ==
    IF done
    THEN { [response |-> << >>, err |-> TRUE] }
    ELSE { [response |-> << >>, err |-> TRUE] } \cup
         { [response |-> x, err |-> FALSE] : x \in LlmResponses }

(* ------------------------------- analyze ------------------------------- *)

\* no error
NoErr == "nil"

\* analyze returns (res, err) to its caller: the request is done
Return(r, res, err) ==
    /\ pc' = [pc EXCEPT ![r] = "done"]
    /\ ret' = [ret EXCEPT ![r] = [result |-> res, err |-> err]]

\* the zero value of the read result
NoRead == [result |-> {}, found |-> FALSE, err |-> FALSE]

\* analyze, lines 55-59: the call starts and computes the fingerprint of the mode;
\* the callers are interchangeable, so they make their first calls in the order of
\* their numbers
AnalyzeStart(r, p, mode) ==
    /\ pc[r] \in {"idle", "done"}
    /\ \A q \in 1..(r - 1) : pc[q] # "idle"
    /\ calls < MaxCalls
    /\ calls' = calls + 1
    /\ page' = [page EXCEPT ![r] = p]
    /\ reqMode' = [reqMode EXCEPT ![r] = mode]
    /\ ctxDone' = [ctxDone EXCEPT ![r] = FALSE]
    /\ result' = [result EXCEPT ![r] = {}]
    /\ jsonText' = [jsonText EXCEPT ![r] = << >>]
    /\ llmCalls' = [llmCalls EXCEPT ![r] = 0]
    /\ storeReads' = [storeReads EXCEPT ![r] = 0]
    /\ storeWrites' = [storeWrites EXCEPT ![r] = 0]
    /\ readSeen' = [readSeen EXCEPT ![r] = NoRead]
    /\ fault' = [fault EXCEPT ![r] = "none"]
    /\ LET g == GeneratePromptFingerprint(mode)
       IN  IF g.err
           THEN /\ Return(r, {}, "error generating prompt fingerprint")
                /\ fingerprint' = [fingerprint EXCEPT ![r] = 0]
           ELSE /\ pc' = [pc EXCEPT ![r] = "read"]
                /\ ret' = [ret EXCEPT ![r] = [result |-> {}, err |-> NoErr]]
                /\ fingerprint' = [fingerprint EXCEPT ![r] = g.fp]
    /\ UNCHANGED <<Pages, keyVars, fetchVars>>
    /\ UNCHANGED <<pureVars, storeVars, feedVars, batchVars>>
    /\ UNCHANGED <<PromptTemplates, edits, AnalysisResults, lastWriter, lastStored>>

\* variant of the cache read that returns any entry it finds
AnalyzeReadCache_IgnoresFingerprint(r) ==
    /\ pc[r] = "read"
    /\ \E GetAnalysisError \in BOOLEAN :
       LET rd == ReadAnalysisResult(GetAnalysisError, ctxDone[r], page[r].URL, reqMode[r])
       IN  /\ storeReads' = [storeReads EXCEPT ![r] = @ + 1]
           /\ readSeen' = [readSeen EXCEPT ![r] = rd]
           /\ fault' = [fault EXCEPT ![r] = IF GetAnalysisError \/ ctxDone[r] THEN "read" ELSE @]
           /\ IF rd.err
              THEN Return(r, {}, "error checking analysis cache")
              ELSE IF rd.found
                   THEN Return(r, rd.result, NoErr)
                   ELSE /\ pc' = [pc EXCEPT ![r] = "llm"]
                        /\ UNCHANGED ret
    /\ UNCHANGED jsonText
    /\ UNCHANGED <<Pages, keyVars, fetchVars>>
    /\ UNCHANGED <<pureVars, storeVars, feedVars, batchVars>>
    /\ UNCHANGED <<PromptTemplates, edits, AnalysisResults, page, reqMode, ctxDone, fingerprint, result,
                   llmCalls, storeWrites, calls, lastWriter, lastStored>>

\* analyze, lines 61-78: the cache read and the fingerprint comparison
AnalyzeReadCache(r) ==
    /\ pc[r] = "read"
    /\ \E GetAnalysisError \in BOOLEAN :
       LET rd == ReadAnalysisResult(GetAnalysisError, ctxDone[r], page[r].URL, reqMode[r])
       IN  /\ storeReads' = [storeReads EXCEPT ![r] = @ + 1]
           /\ readSeen' = [readSeen EXCEPT ![r] = rd]
           /\ fault' = [fault EXCEPT ![r] = IF GetAnalysisError \/ ctxDone[r] THEN "read" ELSE @]
           /\ IF rd.err
              THEN Return(r, {}, "error checking analysis cache")
              ELSE IF rd.found /\ \A c \in rd.result : c.PromptFingerprint = fingerprint[r]
                   THEN Return(r, rd.result, NoErr)
                   ELSE /\ pc' = [pc EXCEPT ![r] = "llm"]
                        /\ UNCHANGED ret
    /\ UNCHANGED jsonText
    /\ UNCHANGED <<Pages, keyVars, fetchVars>>
    /\ UNCHANGED <<pureVars, storeVars, feedVars, batchVars>>
    /\ UNCHANGED <<PromptTemplates, edits, AnalysisResults, page, reqMode, ctxDone, fingerprint, result,
                   llmCalls, storeWrites, calls, lastWriter, lastStored>>

\* variant of the LLM step that stores an empty result when the conversion fails
AnalyzeCallLlm_WritesBeforeConvert(r) ==
    /\ pc[r] = "llm"
    /\ LET pr == GeneratePrompt(reqMode[r], page[r].Title, page[r].Content)
       IN  IF pr.err
           THEN /\ Return(r, {}, "error generating prompt")
                /\ UNCHANGED <<llmCalls, result, fault, jsonText, AnalysisResults>>
           ELSE \E out \in LlmAnalyze(ctxDone[r], pr.prompt) :
                   /\ llmCalls' = [llmCalls EXCEPT ![r] = @ + 1]
                   /\ fault' = [fault EXCEPT ![r] = IF out.err THEN "llm" ELSE @]
                   /\ jsonText' = [jsonText EXCEPT ![r] =
                                      IF out.err THEN @ ELSE parseJSONResponse(out.response).json]
                   /\ IF out.err
                      THEN /\ Return(r, {}, "error analyzing content")
                           /\ UNCHANGED <<result, AnalysisResults>>
                      ELSE LET js   == parseJSONResponse(out.response)
                               conv == ProcessResponse(reqMode[r], js.json, fingerprint[r])
                           IN  IF js.err
                               THEN /\ Return(r, {}, "error extracting JSON from response")
                                    /\ UNCHANGED <<result, AnalysisResults>>
                               ELSE IF reqMode[r] \notin DOMAIN PromptTemplates
                                    THEN /\ Return(r, {}, "unknown mode")
                                         /\ UNCHANGED <<result, AnalysisResults>>
                                    ELSE IF conv.err
                                         THEN /\ Return(r, {}, "error parsing JSON")
                                              /\ UNCHANGED result
                                              /\ AnalysisResults' =
                                                   WriteAnalysisResult(FALSE, FALSE, page[r].URL,
                                                       [Mode              |-> reqMode[r],
                                                        JokePercentage    |-> {},
                                                        JokeReasoning     |-> {},
                                                        PromptFingerprint |-> fingerprint[r]]).store
                                         ELSE /\ result' = [result EXCEPT ![r] = conv.result]
                                              /\ pc' = [pc EXCEPT ![r] = "write"]
                                              /\ UNCHANGED <<ret, AnalysisResults>>
    /\ UNCHANGED <<Pages, keyVars, fetchVars>>
    /\ UNCHANGED <<pureVars, storeVars, feedVars, batchVars>>
    /\ UNCHANGED <<PromptTemplates, edits, page, reqMode, ctxDone, fingerprint,
                   storeReads, storeWrites, readSeen, calls, lastWriter, lastStored>>

\* variant of the LLM step that calls the LLM again when the call fails
AnalyzeCallLlm_RetriesLlm(r) ==
    /\ pc[r] = "llm"
    /\ LET pr == GeneratePrompt(reqMode[r], page[r].Title, page[r].Content)
       IN  IF pr.err
           THEN /\ Return(r, {}, "error generating prompt")
                /\ UNCHANGED <<llmCalls, result, fault, jsonText>>
           ELSE \E out \in LlmAnalyze(ctxDone[r], pr.prompt) :
                   /\ llmCalls' = [llmCalls EXCEPT ![r] = IF @ < 2 THEN @ + 1 ELSE @]
                   /\ fault' = [fault EXCEPT ![r] = IF out.err THEN "llm" ELSE @]
                   /\ jsonText' = [jsonText EXCEPT ![r] =
                                      IF out.err THEN @ ELSE parseJSONResponse(out.response).json]
                   /\ IF out.err
                      THEN /\ IF llmCalls[r] = 0
                              THEN UNCHANGED <<pc, ret>>
                              ELSE Return(r, {}, "error analyzing content")
                           /\ UNCHANGED result
                      ELSE LET js   == parseJSONResponse(out.response)
                               conv == ProcessResponse(reqMode[r], js.json, fingerprint[r])
                           IN  IF js.err
                               THEN /\ Return(r, {}, "error extracting JSON from response")
                                    /\ UNCHANGED result
                               ELSE IF reqMode[r] \notin DOMAIN PromptTemplates
                                    THEN /\ Return(r, {}, "unknown mode")
                                         /\ UNCHANGED result
                                    ELSE IF conv.err
                                         THEN /\ Return(r, {}, "error parsing JSON")
                                              /\ UNCHANGED result
                                         ELSE /\ result' = [result EXCEPT ![r] = conv.result]
                                              /\ pc' = [pc EXCEPT ![r] = "write"]
                                              /\ UNCHANGED ret
    /\ UNCHANGED <<Pages, keyVars, fetchVars>>
    /\ UNCHANGED <<pureVars, storeVars, feedVars, batchVars>>
    /\ UNCHANGED <<PromptTemplates, edits, AnalysisResults, page, reqMode, ctxDone, fingerprint,
                   storeReads, storeWrites, readSeen, calls, lastWriter, lastStored>>

\* analyze, lines 84-109: build the prompt, call the LLM, parse and convert the answer
AnalyzeCallLlm(r) ==
    /\ pc[r] = "llm"
    /\ LET pr == GeneratePrompt(reqMode[r], page[r].Title, page[r].Content)
       IN  IF pr.err
           THEN /\ Return(r, {}, "error generating prompt")
                /\ UNCHANGED <<llmCalls, result, fault, jsonText>>
           ELSE \E out \in LlmAnalyze(ctxDone[r], pr.prompt) :
                   /\ llmCalls' = [llmCalls EXCEPT ![r] = @ + 1]
                   /\ fault' = [fault EXCEPT ![r] = IF out.err THEN "llm" ELSE @]
                   /\ jsonText' = [jsonText EXCEPT ![r] =
                                      IF out.err THEN @ ELSE parseJSONResponse(out.response).json]
                   /\ IF out.err
                      THEN /\ Return(r, {}, "error analyzing content")
                           /\ UNCHANGED result
                      ELSE LET js   == parseJSONResponse(out.response)
                               conv == ProcessResponse(reqMode[r], js.json, fingerprint[r])
                           IN  IF js.err
                               THEN /\ Return(r, {}, "error extracting JSON from response")
                                    /\ UNCHANGED result
                               ELSE IF reqMode[r] \notin DOMAIN PromptTemplates
                                    THEN /\ Return(r, {}, "unknown mode")
                                         /\ UNCHANGED result
                                    ELSE IF conv.err
                                         THEN /\ Return(r, {}, "error parsing JSON")
                                              /\ UNCHANGED result
                                         ELSE /\ result' = [result EXCEPT ![r] = conv.result]
                                              /\ pc' = [pc EXCEPT ![r] = "write"]
                                              /\ UNCHANGED ret
    /\ UNCHANGED <<Pages, keyVars, fetchVars>>
    /\ UNCHANGED <<pureVars, storeVars, feedVars, batchVars>>
    /\ UNCHANGED <<PromptTemplates, edits, AnalysisResults, page, reqMode, ctxDone, fingerprint,
                   storeReads, storeWrites, readSeen, calls, lastWriter, lastStored>>

\* variant of the cache write that returns the write error to the caller
AnalyzeWriteCache_PropagatesError(r) ==
    /\ pc[r] = "write"
    /\ \E res \in result[r], CreateAnalysisError \in BOOLEAN :
          LET w       == WriteAnalysisResult(CreateAnalysisError, ctxDone[r], page[r].URL, res)
              keyName == UrlToAnalysisKey(page[r].URL, res.Mode)
          IN  /\ AnalysisResults' = w.store
              /\ storeWrites' = [storeWrites EXCEPT ![r] = @ + 1]
              /\ fault' = [fault EXCEPT ![r] =
                               IF CreateAnalysisError \/ ctxDone[r] THEN "write" ELSE @]
              /\ lastWriter' = IF CreateAnalysisError \/ ctxDone[r] THEN lastWriter
                                ELSE [k \in DOMAIN lastWriter \cup {keyName} |->
                                         IF k = keyName THEN r ELSE lastWriter[k]]
              /\ lastStored' = IF CreateAnalysisError \/ ctxDone[r] THEN lastStored
                               ELSE [k \in DOMAIN lastStored \cup {keyName} |->
                                        IF k = keyName THEN res ELSE lastStored[k]]
              /\ IF w.err
                 THEN Return(r, {}, "error saving analysis result to cache")
                 ELSE Return(r, result[r], NoErr)
    /\ UNCHANGED jsonText
    /\ UNCHANGED <<Pages, keyVars, fetchVars>>
    /\ UNCHANGED <<pureVars, storeVars, feedVars, batchVars>>
    /\ UNCHANGED <<PromptTemplates, edits, page,
                   reqMode, ctxDone, fingerprint, result, llmCalls, storeReads, readSeen,
                   calls>>

\* analyze, lines 111-120: the cache write, whose error is logged and dropped
AnalyzeWriteCache(r) ==
    /\ pc[r] = "write"
    /\ \E res \in result[r], CreateAnalysisError \in BOOLEAN :
          LET w       == WriteAnalysisResult(CreateAnalysisError, ctxDone[r], page[r].URL, res)
              keyName == UrlToAnalysisKey(page[r].URL, res.Mode)
          IN  /\ AnalysisResults' = w.store
              /\ storeWrites' = [storeWrites EXCEPT ![r] = @ + 1]
              /\ fault' = [fault EXCEPT ![r] =
                               IF CreateAnalysisError \/ ctxDone[r] THEN "write" ELSE @]
              /\ lastWriter' = IF CreateAnalysisError \/ ctxDone[r] THEN lastWriter
                                ELSE [k \in DOMAIN lastWriter \cup {keyName} |->
                                         IF k = keyName THEN r ELSE lastWriter[k]]
              /\ lastStored' = IF CreateAnalysisError \/ ctxDone[r] THEN lastStored
                               ELSE [k \in DOMAIN lastStored \cup {keyName} |->
                                        IF k = keyName THEN res ELSE lastStored[k]]
              /\ Return(r, result[r], NoErr)
    /\ UNCHANGED jsonText
    /\ UNCHANGED <<Pages, keyVars, fetchVars>>
    /\ UNCHANGED <<pureVars, storeVars, feedVars, batchVars>>
    /\ UNCHANGED <<PromptTemplates, edits, page,
                   reqMode, ctxDone, fingerprint, result, llmCalls, storeReads, readSeen,
                   calls>>

(* ----------------------------- environment ----------------------------- *)

\* the context of a running call is cancelled or its deadline passes
CtxCancel(r) ==
    /\ pc[r] \in {"read", "llm", "write"}
    /\ ~ctxDone[r]
    /\ ctxDone' = [ctxDone EXCEPT ![r] = TRUE]
    /\ UNCHANGED jsonText
    /\ UNCHANGED <<Pages, keyVars, fetchVars>>
    /\ UNCHANGED <<pureVars, storeVars, feedVars, batchVars>>
    /\ UNCHANGED <<PromptTemplates, edits, AnalysisResults, pc, page, reqMode, fingerprint,
                   result, ret, llmCalls, storeReads, storeWrites, readSeen, fault, calls,
                   lastWriter, lastStored>>

\* a prompt file is edited and the process restarted with the new registry; the
\* registry never changes while a call runs
Redeploy(mode, text) ==
    /\ \A r \in Requests : pc[r] \in {"idle", "done"}
    /\ edits < MaxEdits
    /\ mode \in DOMAIN PromptTemplates
    /\ text # PromptTemplates[mode].Template
    /\ edits' = edits + 1
    /\ PromptTemplates' = [PromptTemplates EXCEPT ![mode] = [Template |-> text]]
    /\ lastStored' = [k \in {j \in DOMAIN lastStored : lastStored[j].Mode # mode} |->
                         lastStored[k]]
    /\ UNCHANGED jsonText
    /\ UNCHANGED <<Pages, keyVars, fetchVars>>
    /\ UNCHANGED <<pureVars, storeVars, feedVars, batchVars>>
    /\ UNCHANGED <<AnalysisResults, pc, page, reqMode, ctxDone, fingerprint, result, ret,
                   llmCalls, storeReads, storeWrites, readSeen, fault, calls, lastWriter>>

(* ----------------------------- URL normalizer -------------------------- *)

\* the scheme prefixes NormalizeURL and AddProtocol look for
SchemeHttp == <<"h", "t", "t", "p", ":", "/", "/">>

SchemeHttps == <<"h", "t", "t", "p", "s", ":", "/", "/">>

\* variant of NormalizeURL that keeps the query string
NormalizeURL_KeepsQuery(url) ==
    TrimPrefix(TrimPrefix(url, SchemeHttps), SchemeHttp)

\* lib.NormalizeURL: drop a leading https:// and then a leading http://, then cut at
\* the first ?
NormalizeURL(url) ==
    LET normalized == TrimPrefix(TrimPrefix(url, SchemeHttps), SchemeHttp)
        idx        == Index(normalized, "?")
    IN  IF idx # 0 THEN SubSeq(normalized, 1, idx - 1) ELSE normalized

\* variant of AddProtocol without the rule for local hosts
AddProtocol_AlwaysHttps(normalizedURL) ==
    IF HasPrefix(normalizedURL, SchemeHttp) \/ HasPrefix(normalizedURL, SchemeHttps)
    THEN normalizedURL
    ELSE SchemeHttps \o normalizedURL

\* lib.AddProtocol: a URL with a scheme is returned as it is; local hosts get http://,
\* all others https://
AddProtocol(normalizedURL) ==
    IF HasPrefix(normalizedURL, SchemeHttp) \/ HasPrefix(normalizedURL, SchemeHttps)
    THEN normalizedURL
    ELSE IF HasPrefix(normalizedURL, <<"l", "o", "c", "a", "l", "h", "o", "s", "t">>)
              \/ HasPrefix(normalizedURL, <<"1", "2", "7", ".", "0", ".", "0", ".", "1">>)
         THEN SchemeHttp \o normalizedURL
         ELSE SchemeHttps \o normalizedURL

(* ------------------------------ page store ----------------------------- *)

\* datastoreClientAdapter.ReadCrawledPage: (page, found, err); the page returned
\* carries the url argument as its URL
ReadCrawledPage(GetError, url) ==
    LET key == UrlToCrawledPageKey(url)
    IN  IF GetError
        THEN [page |-> {}, found |-> FALSE, err |-> TRUE]
        ELSE IF key \in DOMAIN Pages
             THEN [page |-> {[Pages[key] EXCEPT !.URL = url]}, found |-> TRUE, err |-> FALSE]
             ELSE [page |-> {}, found |-> FALSE, err |-> FALSE]

\* variant of WriteCrawledPage that leaves an existing entry of the key as it is
WriteCrawledPage_KeepsExisting(CreateError, url, title, content, datetime) ==
    LET pg  == [URL      |-> url,
                Title    |-> title,
                Content  |-> content,
                DateTime |-> IF datetime = 0 THEN now ELSE datetime]
        key == UrlToCrawledPageKey(url)
    IN  IF CreateError
        THEN [store |-> Pages, page |-> {}, err |-> TRUE]
        ELSE [store |-> [k \in DOMAIN Pages \cup {key} |->
                            IF k \in DOMAIN Pages THEN Pages[k] ELSE pg],
              page  |-> {pg},
              err   |-> FALSE]

\* variant of WriteCrawledPage that stores the page with the URL it is fetched from
WriteCrawledPage_StoresFetchUrl(CreateError, url, title, content, datetime) ==
    LET pg  == [URL      |-> url,
                Title    |-> title,
                Content  |-> content,
                DateTime |-> IF datetime = 0 THEN now ELSE datetime]
        key == UrlToCrawledPageKey(url)
    IN  IF CreateError
        THEN [store |-> Pages, page |-> {}, err |-> TRUE]
        ELSE [store |-> [k \in DOMAIN Pages \cup {key} |->
                            IF k = key
                            THEN [pg EXCEPT !.URL = <<"h", "t", "t", "p", "s", ":", "/", "/">> \o url]
                            ELSE Pages[k]],
              page  |-> {pg},
              err   |-> FALSE]

\* datastoreClientAdapter.WriteCrawledPage: the store after the write, the page and
\* err; a zero datetime (0) is replaced by the current time
WriteCrawledPage(CreateError, url, title, content, datetime) ==
    LET pg  == [URL      |-> url,
                Title    |-> title,
                Content  |-> content,
                DateTime |-> IF datetime = 0 THEN now ELSE datetime]
        key == UrlToCrawledPageKey(url)
    IN  IF CreateError
        THEN [store |-> Pages, page |-> {}, err |-> TRUE]
        ELSE [store |-> [k \in DOMAIN Pages \cup {key} |->
                            IF k = key THEN pg ELSE Pages[k]],
              page  |-> {pg},
              err   |-> FALSE]

(* ---------------------------- key derivation --------------------------- *)

\* first prefixes of the URL arguments: none, the two schemes, an upper-case scheme,
\* another scheme
FirstPrefixes ==
    { << >>, SchemeHttp, SchemeHttps, <<"H", "T", "T", "P", ":", "/", "/">>, <<"f", "t", "p", ":", "/", "/">> }

\* host-and-path parts of the URL arguments (no scheme, no ?)
HostPaths ==
    { <<"x", ".", "c", "o", "m", "/", "a">>,
      <<"x", ".", "c", "o", "m", "/", "a", "/">>,
      <<"x", ".", "c", "o", "m", "/", "a", "/", "b">>,
      <<"x", ".", "c", "o", "m", "/", "a", "_", "b">>,
      <<"l", "o", "c", "a", "l", "h", "o", "s", "t">>,
      <<"1", "2", "7", ".", "0", ".", "0", ".", "1">>,
      <<"x", ".", "c", "o", "m", "/", "a", "#", "f">>,
      << >> }

\* query parts of the URL arguments: none, a query, a query followed by a fragment
Queries == { << >>, <<"?", "y", "=", "1">>, <<"?", "z", "#", "f">> }

\* URL arguments by their parts: a second scheme prefix only follows a first one
UrlPartsInputs ==
    { p \in [first : FirstPrefixes, second : {<< >>, SchemeHttp, SchemeHttps},
             hostPath : HostPaths, query : Queries] :
          p.second # << >> => p.first \in {SchemeHttp, SchemeHttps} }

\* second URL arguments: the variants in scheme and query
UrlPartsVariants ==
    { p \in UrlPartsInputs :
          p.first \in {<< >>, SchemeHttp, SchemeHttps} /\ p.second = << >>
          /\ p.query # <<"?", "y", "=", "1">> }

\* the URL string made of the parts
UrlOf(p) == p.first \o p.second \o p.hostPath \o p.query

\* the result written for the i-th URL
KeyResult(i, mode) ==
    [Mode |-> mode, JokePercentage |-> {i}, JokeReasoning |-> {}, PromptFingerprint |-> i]

\* NormalizeURL applied to both URLs (FetchArticleContent, first statement)
KeyNormalize ==
    /\ kpc = "input"
    /\ kpc' = "normalized"
    /\ knormalized' = [i \in {1, 2} |-> NormalizeURL(UrlOf(urlParts[i]))]
    /\ UNCHANGED <<AnalysisResults, Pages, analyzeVars, fetchVars>>
    /\ UNCHANGED <<pureVars, storeVars, feedVars, batchVars>>
    /\ UNCHANGED <<urlParts, keyModes, fetchURL, renormalized, readBack>>

\* AddProtocol applied to both normalized URLs, and NormalizeURL to its results
KeyAddProtocol ==
    /\ kpc = "normalized"
    /\ kpc' = "fetch"
    /\ fetchURL' = [i \in {1, 2} |-> AddProtocol(knormalized[i])]
    /\ renormalized' = [i \in {1, 2} |-> NormalizeURL(AddProtocol(knormalized[i]))]
    /\ UNCHANGED <<AnalysisResults, Pages, analyzeVars, fetchVars>>
    /\ UNCHANGED <<pureVars, storeVars, feedVars, batchVars>>
    /\ UNCHANGED <<urlParts, keyModes, knormalized, readBack>>

\* the i-th URL is crawled and analyzed: the page and the analysis result are
\* written with the normalized URL, as FetchArticleContent and analyze do
KeyCrawl(i, from, to) ==
    /\ kpc = from
    /\ kpc' = to
    /\ Pages' = WriteCrawledPage(FALSE, knormalized[i], <<"t">>, <<"c">>, i).store
    /\ AnalysisResults' =
          WriteAnalysisResult(FALSE, FALSE, knormalized[i], KeyResult(i, keyModes[i])).store
    /\ UNCHANGED <<analyzeVars, fetchVars>>
    /\ UNCHANGED <<pureVars, storeVars, feedVars, batchVars>>
    /\ UNCHANGED <<urlParts, keyModes, knormalized, fetchURL, renormalized, readBack>>

\* the first URL is crawled and analyzed
KeyCrawlFirst == KeyCrawl(1, "fetch", "crawled1")

\* the second URL is crawled and analyzed
KeyCrawlSecond == KeyCrawl(2, "crawled1", "crawled2")

\* the store operations are called with the first URL as given
KeyWriteRaw ==
    /\ kpc = "fetch"
    /\ kpc' = "written"
    /\ Pages' = WriteCrawledPage(FALSE, UrlOf(urlParts[1]), <<"t">>, <<"c">>, 1).store
    /\ AnalysisResults' =
          WriteAnalysisResult(FALSE, FALSE, UrlOf(urlParts[1]), KeyResult(1, keyModes[1])).store
    /\ UNCHANGED <<analyzeVars, fetchVars>>
    /\ UNCHANGED <<pureVars, storeVars, feedVars, batchVars>>
    /\ UNCHANGED <<urlParts, keyModes, knormalized, fetchURL, renormalized, readBack>>

\* the store operations are called with the second URL as given, for the first mode
KeyReadRaw ==
    /\ kpc = "written"
    /\ kpc' = "read"
    /\ readBack' = [page     |-> ReadCrawledPage(FALSE, UrlOf(urlParts[2])).found,
                    analysis |-> ReadAnalysisResult(FALSE, FALSE, UrlOf(urlParts[2]),
                                                    keyModes[1]).found]
    /\ UNCHANGED <<AnalysisResults, Pages, analyzeVars, fetchVars>>
    /\ UNCHANGED <<pureVars, storeVars, feedVars, batchVars>>
    /\ UNCHANGED <<urlParts, keyModes, knormalized, fetchURL, renormalized>>

(* --------------------------------- fetch ------------------------------- *)

\* the url arguments of FetchArticleContent
FetchUrls == { <<"h", "t", "t", "p", ":", "/", "/", "x", ".", "c", "o", "m", "/", "a", "?", "y", "=", "1">>,
               <<"h", "t", "t", "p", "s", ":", "/", "/", "x", ".", "c", "o", "m", "/", "a">>,
               <<"x", ".", "c", "o", "m", "/", "b">> }

\* urlToCacheFilename: the hex SHA-256 digest of the URL, taken as collision-free and
\* written as the URL under a digest mark
urlToCacheFilename(url) == <<"sha256">> \o url

\* getFileCachePath, second part: the file of the URL in the cache directory
getFileCachePath(url) == <<"cache", "/">> \o urlToCacheFilename(url)

\* what the HTTP GET and the extraction of title and text can end with
HttpGet(fetchUrl) ==
    { [err |-> "error fetching URL", title |-> << >>, text |-> << >>],
      [err |-> "unexpected status code", title |-> << >>, text |-> << >>],
      [err |-> "no content extracted from URL", title |-> <<"t">>, text |-> << >>],
      [err |-> NoErr, title |-> <<"t">>, text |-> <<"c", "1">>],
      [err |-> NoErr, title |-> <<"t">>, text |-> <<"c", "2">>] }

\* FetchArticleContent returns (pg, path, err) to its caller
FetchReturn(pg, path, err) ==
    /\ fpc' = "done"
    /\ fret' = [page |-> pg, path |-> path, err |-> err]

\* cacheWriter.Write(content) on the file opened with O_TRUNC: the bytes are appended
\* unless the write fails
FileWrite(WriteError, path, content) ==
    IF WriteError
    THEN files
    ELSE [f \in DOMAIN files \cup {path} |->
             IF f = path
             THEN (IF path \in DOMAIN files THEN files[path] ELSE << >>) \o content
             ELSE files[f]]

\* FetchArticleContent, lines 168-196: normalize the URL, make the cache directory,
\* open (create, truncate) the side file
FetchStart(url) ==
    /\ fpc \in {"idle", "done"}
    /\ fcalls < MaxFetches
    /\ fcalls' = fcalls + 1
    /\ furl' = url
    /\ fnormalizedURL' = NormalizeURL(url)
    /\ fetched' = {}
    /\ httpGets' = 0
    /\ pageReads' = 0
    /\ pageWrites' = 0
    /\ fileWrites' = 0
    /\ \E MkdirError \in BOOLEAN, OpenError \in BOOLEAN :
          LET cachePath == getFileCachePath(NormalizeURL(url))
          IN  IF MkdirError
              THEN /\ FetchReturn({}, << >>, "error getting cache path")
                   /\ ffault' = "mkdir"
                   /\ UNCHANGED files
              ELSE IF OpenError
                   THEN /\ FetchReturn({}, << >>, "error opening cache file")
                        /\ ffault' = "open"
                        /\ UNCHANGED files
                   ELSE /\ fpc' = "read"
                        /\ fret' = [page |-> {}, path |-> << >>, err |-> NoErr]
                        /\ ffault' = "none"
                        /\ files' = [f \in DOMAIN files \cup {cachePath} |->
                                        IF f = cachePath THEN << >> ELSE files[f]]
    /\ UNCHANGED <<AnalysisResults, Pages, analyzeVars, keyVars>>
    /\ UNCHANGED <<pureVars, storeVars, feedVars, batchVars>>
    /\ UNCHANGED now

\* variant of the store check that fetches the page again although it is stored
FetchReadStore_RefetchesOnHit ==
    /\ fpc = "read"
    /\ pageReads' = pageReads + 1
    /\ \E GetError \in BOOLEAN :
          LET rd == ReadCrawledPage(GetError, fnormalizedURL)
          IN  IF rd.err
              THEN /\ FetchReturn({}, << >>, "error getting crawled page from Datastore")
                   /\ ffault' = "read"
              ELSE /\ fpc' = "http"
                   /\ UNCHANGED <<fret, ffault>>
    /\ UNCHANGED <<AnalysisResults, Pages, analyzeVars, keyVars>>
    /\ UNCHANGED <<pureVars, storeVars, feedVars, batchVars>>
    /\ UNCHANGED <<furl, fnormalizedURL, fetched, httpGets, pageWrites, fcalls, now,
                   files, fileWrites>>

\* fetchArticleContent, lines 62-81: the store check; a stored page is returned and
\* its content written to the side file
FetchReadStore ==
    /\ fpc = "read"
    /\ pageReads' = pageReads + 1
    /\ \E GetError \in BOOLEAN, WriteError \in BOOLEAN :
          LET rd        == ReadCrawledPage(GetError, fnormalizedURL)
              cachePath == getFileCachePath(fnormalizedURL)
          IN  IF rd.err
              THEN /\ FetchReturn({}, << >>, "error getting crawled page from Datastore")
                   /\ ffault' = "read"
                   /\ UNCHANGED <<files, fileWrites>>
              ELSE IF rd.found
                   THEN /\ \E pg \in rd.page :
                             files' = FileWrite(WriteError, cachePath, pg.Content)
                        /\ fileWrites' = IF WriteError THEN fileWrites ELSE fileWrites + 1
                        /\ ffault' = IF WriteError THEN "filewrite" ELSE ffault
                        /\ FetchReturn(rd.page, cachePath, NoErr)
                   ELSE /\ fpc' = "http"
                        /\ UNCHANGED <<fret, ffault, files, fileWrites>>
    /\ UNCHANGED <<AnalysisResults, Pages, analyzeVars, keyVars>>
    /\ UNCHANGED <<pureVars, storeVars, feedVars, batchVars>>
    /\ UNCHANGED <<furl, fnormalizedURL, fetched, httpGets, pageWrites, fcalls, now>>

\* fetchArticleContent, lines 83-141: the HTTP GET of AddProtocol(normalizedURL) and
\* the extraction of title and text
FetchHttp ==
    /\ fpc = "http"
    /\ httpGets' = httpGets + 1
    /\ \E out \in HttpGet(AddProtocol(fnormalizedURL)) :
          IF out.err # NoErr
          THEN /\ FetchReturn({}, IF out.err = "no content extracted from URL"
                                  THEN getFileCachePath(fnormalizedURL) ELSE << >>,
                              out.err)
               /\ ffault' = "http"
               /\ UNCHANGED fetched
          ELSE /\ fetched' = {[title |-> out.title, text |-> out.text]}
               /\ fpc' = "store"
               /\ UNCHANGED <<fret, ffault>>
    /\ UNCHANGED <<AnalysisResults, Pages, analyzeVars, keyVars>>
    /\ UNCHANGED <<pureVars, storeVars, feedVars, batchVars>>
    /\ UNCHANGED <<furl, fnormalizedURL, pageReads, pageWrites, fcalls, now, files,
                   fileWrites>>

\* variant of the store write that returns the fetched page when the write fails
FetchWriteStore_SwallowsError ==
    /\ fpc = "store"
    /\ pageWrites' = pageWrites + 1
    /\ \E doc \in fetched, CreateError \in BOOLEAN, WriteError \in BOOLEAN :
          LET w         == WriteCrawledPage(CreateError, fnormalizedURL, doc.title,
                                            doc.text, now)
              cachePath == getFileCachePath(fnormalizedURL)
          IN  /\ Pages' = w.store
              /\ now' = now + 1
              /\ files' = FileWrite(WriteError, cachePath, doc.text)
              /\ fileWrites' = IF WriteError THEN fileWrites ELSE fileWrites + 1
              /\ ffault' = IF w.err THEN "write"
                           ELSE IF WriteError THEN "filewrite" ELSE ffault
              /\ FetchReturn({[URL |-> fnormalizedURL, Title |-> doc.title,
                               Content |-> doc.text, DateTime |-> now]},
                             cachePath, NoErr)
    /\ UNCHANGED <<AnalysisResults, analyzeVars, keyVars>>
    /\ UNCHANGED <<pureVars, storeVars, feedVars, batchVars>>
    /\ UNCHANGED <<furl, fnormalizedURL, fetched, httpGets, pageReads, fcalls>>

\* fetchArticleContent, lines 143-160: the page is written to the store with the
\* current time, then its text to the side file
FetchWriteStore ==
    /\ fpc = "store"
    /\ pageWrites' = pageWrites + 1
    /\ \E doc \in fetched, CreateError \in BOOLEAN, WriteError \in BOOLEAN :
          LET w         == WriteCrawledPage(CreateError, fnormalizedURL, doc.title,
                                            doc.text, now)
              cachePath == getFileCachePath(fnormalizedURL)
          IN  IF w.err
              THEN /\ FetchReturn({}, << >>, "error saving crawled page to Datastore")
                   /\ ffault' = "write"
                   /\ UNCHANGED <<Pages, now, files, fileWrites>>
              ELSE /\ Pages' = w.store
                   /\ now' = now + 1
                   /\ files' = FileWrite(WriteError, cachePath, doc.text)
                   /\ fileWrites' = IF WriteError THEN fileWrites ELSE fileWrites + 1
                   /\ ffault' = IF WriteError THEN "filewrite" ELSE ffault
                   /\ FetchReturn(w.page, cachePath, NoErr)
    /\ UNCHANGED <<AnalysisResults, analyzeVars, keyVars>>
    /\ UNCHANGED <<pureVars, storeVars, feedVars, batchVars>>
    /\ UNCHANGED <<furl, fnormalizedURL, fetched, httpGets, pageReads, fcalls>>

(* ---------------------------- function calls -------------------------- *)

\* variant of VerifyValidMode that looks the mode up as written
VerifyValidMode_CaseSensitive(mode) ==
    IF mode \notin DOMAIN PromptTemplates
    THEN [mode |-> << >>, err |-> "unknown mode"]
    ELSE [mode |-> mode, err |-> NoErr]

\* VerifyValidMode: the lower-cased mode if the registry has it, else an error
VerifyValidMode(mode) ==
    LET analysisMode == ToLower(mode)
    IN  IF analysisMode \notin DOMAIN PromptTemplates
        THEN [mode |-> << >>, err |-> "unknown mode"]
        ELSE [mode |-> analysisMode, err |-> NoErr]

\* the mode strings VerifyValidMode is called with
VerifyInputs ==
    { <<"j", "o", "k", "e">>, <<"J", "O", "K", "E">>, <<"J", "o", "k", "e">>, <<"t", "e", "s", "t">>, <<"T", "E", "S", "T">>, UnknownMode, << >>, <<" ", "j", "o", "k", "e">>, <<"j", "o", "k", "e", "s">> }

\* an ASCII text of n bytes: "c" up to the cap, "L" at the cap, "X" past the cap
TextOfLen(n) ==
    [i \in 1..n |-> IF i < maxContentLength THEN "c"
                    ELSE IF i = maxContentLength THEN "L" ELSE "X"]

\* the titles GeneratePrompt is called with: short, longer than the cap
TitleInputs == { <<"t">>, TextOfLen(maxContentLength + 1) }

\* the contents GeneratePrompt is called with, as the bytes of Go strings: empty, short,
\* one below the cap, at the cap, one and two above the cap, and a text whose last
\* character is the two-byte UTF-8 sequence C3 A9 lying across the cap
ContentInputs ==
    { << >>, <<"c">>, TextOfLen(maxContentLength - 1), TextOfLen(maxContentLength),
      TextOfLen(maxContentLength + 1), TextOfLen(maxContentLength + 2),
      [i \in 1..(maxContentLength - 1) |-> "c"] \o <<"C3", "A9">> }

\* raw LLM texts parseJSONResponse is called with
ParseInputs ==
    { << >>,
      <<" ", " ", "\n", "\t", " ">>,
      <<"{">>,
      <<"}">>,
      <<"}", " ", "{">>,
      <<"n", "o">>,
      <<"{", "}">>,
      <<"{", "M1", "}">>,
      <<" ", "{", "M1", "}", "\n">>,
      FenceJson \o <<"\n", "{", "M1", "}", "\n">> \o Fence,
      Fence \o <<"\n", "{", "M2", "}", "\n">> \o Fence,
      FenceJson \o <<"\n", " ", "{", "M1", "}", " ", "\n">> \o Fence,
      FenceJson \o <<"\n", "{", "M1", "}">>,
      Fence \o Fence,
      <<"a", ":", " ", "{", "M1", "}">>,
      <<"{", "M2", "}", " ", "z">>,
      <<"a", " ", "{", "M1", "}", " ", "z">>,
      <<"{", "M1", "}", " ", "{", "M2", "}">>,
      <<"a", "}", "{", "M1", "}", "{", "z">> }

\* the longest text between the fences of a generated raw LLM text
MaxRaw == 3

\* the characters of the generated raw LLM texts: the braces, white space, the
\* character of the fences
RawAlphabet == {"{", "}", " ", Backquote}

\* every text over RawAlphabet of at most MaxRaw characters
RawBodies == UNION {[1..n -> RawAlphabet] : n \in 0..MaxRaw}

\* raw LLM texts parseJSONResponse is called with: every body, bare, behind an opening
\* fence or words, before a closing fence, and between both
RawResponses ==
    {prefix \o body \o suffix :
        prefix \in {<< >>, FenceJson, <<"a", ":">>}, body \in RawBodies,
        suffix \in {<< >>, Fence}}

\* JSON texts the joke-mode converter is called with: every object, text that is not
\* an object
JokeJsonInputs ==
    { <<"{", m, "}">> : m \in MemberSymbols } \cup
    { <<"{", "}">>, <<"{", "M1">>, <<"{", "M1", "}", " ", "{", "M2", "}">> }

\* the fingerprints the converter is called with
FingerprintInputs == {0, 7}

\* the template texts a deployment may register for a mode
DeployedTemplates == EditedTemplates \cup {JokePromptTemplate, TestPromptTemplate}

\* the function called and what it returned
Called(fn, args, out) ==
    /\ pfn' = fn
    /\ pin' = args
    /\ pout' = out

\* a call of VerifyValidMode
CallVerifyValidMode(mode) ==
    /\ Called("VerifyValidMode", <<mode>>, VerifyValidMode(mode))
    /\ UNCHANGED <<AnalysisResults, Pages, analyzeVars, keyVars, fetchVars, storeVars, feedVars, batchVars>>
    /\ UNCHANGED fpLog

\* a call of GeneratePromptFingerprint, with the template text the registry holds for
\* the mode at the time of the call
CallGeneratePromptFingerprint(mode) ==
    LET g == GeneratePromptFingerprint(mode)
    IN  /\ Called("GeneratePromptFingerprint", <<mode>>, g)
        /\ fpLog' = fpLog \cup
                     {[mode     |-> mode,
                       template |-> IF mode \in DOMAIN PromptTemplates
                                    THEN {PromptTemplates[mode].Template} ELSE {},
                       fp       |-> g.fp,
                       err      |-> g.err,
                       edits    |-> edits]}
        /\ UNCHANGED <<AnalysisResults, Pages, analyzeVars, keyVars, fetchVars, storeVars,
                       feedVars, batchVars>>

\* a call of GeneratePrompt
CallGeneratePrompt(mode, title, content) ==
    /\ Called("GeneratePrompt", <<mode, title, content>>, GeneratePrompt(mode, title, content))
    /\ UNCHANGED <<AnalysisResults, Pages, analyzeVars, keyVars, fetchVars, storeVars, feedVars, batchVars>>
    /\ UNCHANGED fpLog

\* a call of parseJSONResponse
CallParseJSONResponse(rawResponse) ==
    /\ Called("parseJSONResponse", <<rawResponse>>, parseJSONResponse(rawResponse))
    /\ UNCHANGED <<AnalysisResults, Pages, analyzeVars, keyVars, fetchVars, storeVars, feedVars, batchVars>>
    /\ UNCHANGED fpLog

\* a call of the joke-mode converter
CallProcessJokeResponse(jsonStr, fp) ==
    /\ Called("ProcessJokeResponse", <<jsonStr, fp>>, ProcessJokeResponse(jsonStr, fp))
    /\ UNCHANGED <<AnalysisResults, Pages, analyzeVars, keyVars, fetchVars, storeVars, feedVars, batchVars>>
    /\ UNCHANGED fpLog

(* ------------------------------ store calls ---------------------------- *)

\* the URLs the store is called with: two that share a document ID, one of another
StoreUrls ==
    { <<"x", ".", "c", "o", "m", "/", "a">>,
      <<"x", ".", "c", "o", "m", "/", "a", "?", "y", "=", "1">>,
      <<"x", ".", "c", "o", "m", "/", "b">> }

\* the titles of the pages written
StoreTitles == { <<"t", "1">>, <<"t", "2">> }

\* the datetime arguments of WriteCrawledPage: the zero time, a set time
StoreDatetimes == {0, 7}

\* the analysis results written
StoreResults ==
    { [Mode |-> AnalysisModeJoke, JokePercentage |-> {85}, JokeReasoning |-> {<<"J">>},
       PromptFingerprint |-> 1],
      [Mode |-> AnalysisModeJoke, JokePercentage |-> {}, JokeReasoning |-> {<<"n">>},
       PromptFingerprint |-> 2],
      [Mode |-> AnalysisModeTest, JokePercentage |-> {}, JokeReasoning |-> {},
       PromptFingerprint |-> 1] }

\* the log with the entry of key replaced
Logged(log, key, value) ==
    [k \in DOMAIN log \cup {key} |-> IF k = key THEN value ELSE log[k]]

\* a call of WriteCrawledPage; the log keeps, per document ID, the arguments of the
\* last successful call, the time of the call and whether the ID held an entry before
StoreWritePage(url, title, content, datetime, CreateError) ==
    LET w == WriteCrawledPage(CreateError, url, title, content, datetime)
    IN  /\ swrites < MaxWrites
        /\ swrites' = swrites + 1
        /\ Pages' = w.store
        /\ now' = now + 1
        /\ sop' = "WriteCrawledPage"
        /\ sarg' = <<url, title, content, datetime>>
        /\ sret' = [page |-> w.page, err |-> w.err]
        /\ pageLog' = IF w.err THEN pageLog
                      ELSE Logged(pageLog, UrlToCrawledPageKey(url),
                                  [url |-> url, title |-> title, content |-> content,
                                   datetime |-> datetime, at |-> now,
                                   replaced |-> UrlToCrawledPageKey(url) \in DOMAIN Pages])
        /\ UNCHANGED analysisLog
        /\ UNCHANGED <<AnalysisResults, analyzeVars, keyVars, pureVars, feedVars, batchVars>>
        /\ UNCHANGED <<fpc, furl, fnormalizedURL, fret, files, fetched, httpGets, pageReads,
                       pageWrites, fileWrites, ffault, fcalls>>

\* a call of ReadCrawledPage
StoreReadPage(url, GetError) ==
    /\ sop' = "ReadCrawledPage"
    /\ sarg' = <<url>>
    /\ sret' = ReadCrawledPage(GetError, url)
    /\ UNCHANGED <<pageLog, analysisLog, swrites>>
    /\ UNCHANGED <<AnalysisResults, Pages, analyzeVars, keyVars, fetchVars, pureVars, feedVars, batchVars>>

\* a call of WriteAnalysisResult
StoreWriteAnalysis(url, res, CreateAnalysisError) ==
    LET w == WriteAnalysisResult(CreateAnalysisError, FALSE, url, res)
    IN  /\ swrites < MaxWrites
        /\ swrites' = swrites + 1
        /\ AnalysisResults' = w.store
        /\ sop' = "WriteAnalysisResult"
        /\ sarg' = <<url, res>>
        /\ sret' = [err |-> w.err]
        /\ analysisLog' = IF w.err THEN analysisLog
                          ELSE Logged(analysisLog, UrlToAnalysisKey(url, res.Mode), res)
        /\ UNCHANGED pageLog
        /\ UNCHANGED <<Pages, analyzeVars, keyVars, fetchVars, pureVars, feedVars, batchVars>>

\* a call of ReadAnalysisResult
StoreReadAnalysis(url, mode, GetAnalysisError) ==
    /\ sop' = "ReadAnalysisResult"
    /\ sarg' = <<url, mode>>
    /\ sret' = ReadAnalysisResult(GetAnalysisError, FALSE, url, mode)
    /\ UNCHANGED <<pageLog, analysisLog, swrites>>
    /\ UNCHANGED <<AnalysisResults, Pages, analyzeVars, keyVars, fetchVars, pureVars, feedVars, batchVars>>

(* --------------------------------- feed -------------------------------- *)

\* the pages crawled ahead of the feed queries: URL, title and crawl time
FeedPages ==
    { [url |-> <<"x", ".", "c", "o", "m", "/", "a">>, title |-> <<"A">>, datetime |-> 1],
      [url |-> <<"x", ".", "c", "o", "m", "/", "a">>, title |-> <<"A">>, datetime |-> 5],
      [url |-> <<"x", ".", "c", "o", "m", "/", "b">>, title |-> <<"B">>, datetime |-> 2],
      [url |-> <<"x", ".", "c", "o", "m", "/", "c">>, title |-> <<"C">>, datetime |-> 3],
      [url |-> <<"x", ".", "c", "o", "m", "/", "d">>, title |-> <<"D">>, datetime |-> 3] }

\* an analysis result of the joke mode with the given percentage ({} is nil), made
\* with the template the registry holds
JokeResult(percentage) ==
    [Mode |-> AnalysisModeJoke, JokePercentage |-> percentage,
     JokeReasoning |-> {<<"r">>},
     PromptFingerprint |-> GeneratePromptFingerprint(AnalysisModeJoke).fp]

\* the analysis results stored ahead of the feed queries; the joke result of page d
\* was made with an earlier template (fingerprint 1)
FeedAnalyses ==
    { [url |-> <<"x", ".", "c", "o", "m", "/", "a">>, res |-> JokeResult({50})],
      [url |-> <<"x", ".", "c", "o", "m", "/", "b">>, res |-> JokeResult({90})],
      [url |-> <<"x", ".", "c", "o", "m", "/", "b">>, res |-> JokeResult({})],
      [url |-> <<"x", ".", "c", "o", "m", "/", "c">>, res |-> JokeResult({30})],
      [url |-> <<"x", ".", "c", "o", "m", "/", "c">>, res |-> JokeResult({90})],
      [url |-> <<"x", ".", "c", "o", "m", "/", "d">>,
       res |-> [JokeResult({80}) EXCEPT !.PromptFingerprint = 1]],
      [url |-> <<"x", ".", "c", "o", "m", "/", "d">>,
       res |-> [Mode |-> AnalysisModeTest, JokePercentage |-> {}, JokeReasoning |-> {},
                PromptFingerprint |-> 1]] }

\* the oldestDate arguments of the queries
OldestDates == {2, 3}

\* the feed queries: joke-mode queries with every limit and date, with and without a
\* failing analysis read of page b; a test-mode query; an unknown mode; a failing listing
FeedQueries ==
    { [GetAllError |-> FALSE, failing |-> failing, maxArticles |-> maxArticles,
       oldestDate |-> oldestDate, modeStr |-> <<"J", "O", "K", "E">>] :
         failing \in { {}, {<<"x", ".", "c", "o", "m", "/", "b">>} },
         maxArticles \in 0..MaxArticles,
         oldestDate \in OldestDates } \cup
    { [GetAllError |-> FALSE, failing |-> {}, maxArticles |-> MaxArticles,
       oldestDate |-> 2, modeStr |-> <<"t", "e", "s", "t">>],
      [GetAllError |-> FALSE, failing |-> {}, maxArticles |-> MaxArticles,
       oldestDate |-> 2, modeStr |-> UnknownMode],
      [GetAllError |-> TRUE, failing |-> {}, maxArticles |-> MaxArticles,
       oldestDate |-> 2, modeStr |-> <<"J", "O", "K", "E">>] }

\* variant of GetCrawledPagesSince that leaves out the pages stamped at the threshold
GetCrawledPagesSince_After(GetAllError, oldestDate) ==
    LET docs == {Pages[k] : k \in {j \in DOMAIN Pages : Pages[j].DateTime > oldestDate}}
        n    == Cardinality(docs)
    IN  IF GetAllError
        THEN {[pages |-> << >>, err |-> TRUE]}
        ELSE {[pages |-> pages, err |-> FALSE] :
                 pages \in {s \in [1..n -> docs] :
                               /\ \A i, j \in 1..n : i # j => s[i] # s[j]
                               /\ \A i, j \in 1..n : i < j => s[i].DateTime >= s[j].DateTime}}

\* GetCrawledPagesSince: the outcomes of the query Where DateTime >= oldestDate,
\* OrderBy DateTime descending; pages of equal DateTime come in either order
GetCrawledPagesSince(GetAllError, oldestDate) ==
    LET docs == {Pages[k] : k \in {j \in DOMAIN Pages : Pages[j].DateTime >= oldestDate}}
        n    == Cardinality(docs)
    IN  IF GetAllError
        THEN {[pages |-> << >>, err |-> TRUE]}
        ELSE {[pages |-> pages, err |-> FALSE] :
                 pages \in {s \in [1..n -> docs] :
                               /\ \A i, j \in 1..n : i # j => s[i] # s[j]
                               /\ \A i, j \in 1..n : i < j => s[i].DateTime >= s[j].DateTime}}

\* variant of the loop that takes a nil JokePercentage for a confidence of 0
RECURSIVE FeedItems_NilAsZero(_, _, _)
FeedItems_NilAsZero(pages, mode, failing) ==
    IF pages = << >> THEN << >>
    ELSE LET pg       == Head(pages)
             analysis == ReadAnalysisResult(pg.URL \in failing, FALSE, pg.URL, mode)
             rest     == FeedItems_NilAsZero(Tail(pages), mode, failing)
         IN  IF analysis.err THEN rest
             ELSE IF ~analysis.found
                  THEN rest
                  ELSE << [URL            |-> pg.URL,
                           Title          |-> pg.Title,
                           JokeConfidence |->
                               IF \A res \in analysis.result : res.JokePercentage = {}
                               THEN 0
                               ELSE CHOOSE c \in UNION {res.JokePercentage :
                                                          res \in analysis.result} :
                                        TRUE] >> \o rest

\* the loop of GetFeed over the pages: a page whose analysis read fails, is not found
\* or has a nil JokePercentage is skipped, every other page appends an item
RECURSIVE FeedItems(_, _, _)
FeedItems(pages, mode, failing) ==
    IF pages = << >> THEN << >>
    ELSE LET pg       == Head(pages)
             analysis == ReadAnalysisResult(pg.URL \in failing, FALSE, pg.URL, mode)
             rest     == FeedItems(Tail(pages), mode, failing)
         IN  IF analysis.err THEN rest
             ELSE IF ~analysis.found \/ \A res \in analysis.result : res.JokePercentage = {}
                  THEN rest
                  ELSE << [URL            |-> pg.URL,
                           Title          |-> pg.Title,
                           JokeConfidence |-> CHOOSE c \in UNION {res.JokePercentage :
                                                                   res \in analysis.result} :
                                                  TRUE] >> \o rest

\* variant of the sort that leaves the items in the order of the listing
SortSlice_Unsorted(items) == {items}

\* sort.Slice with the comparator JokeConfidence greater: the orders it can leave the
\* items in (the sort is not stable, items of equal confidence come in either order)
SortSlice(items) ==
    LET n == Len(items)
    IN  {[i \in 1..n |-> items[f[i]]] :
            f \in {g \in [1..n -> 1..n] :
                      /\ \A i, j \in 1..n : i # j => g[i] # g[j]
                      /\ \A i, j \in 1..n :
                            i < j => items[g[i]].JokeConfidence >= items[g[j]].JokeConfidence}}

\* variant of GetFeed that gives up with the store's error when an analysis read fails
GetFeed_AbortsOnReadError(GetAllError, failing, maxArticles, oldestDate, modeStr) ==
    LET verified == VerifyValidMode(modeStr)
    IN  IF GetAllError
        THEN {[items |-> << >>, err |-> "store error", lists |-> 1, reads |-> 0]}
        ELSE IF verified.err # NoErr
             THEN {[items |-> << >>, err |-> verified.err, lists |-> 1, reads |-> 0]}
             ELSE UNION
                    {{[items |-> IF \E i \in 1..Len(listed.pages) :
                                       listed.pages[i].URL \in failing
                                 THEN << >>
                                 ELSE IF Len(items) > maxArticles
                                      THEN SubSeq(items, 1, maxArticles) ELSE items,
                       err   |-> IF \E i \in 1..Len(listed.pages) :
                                       listed.pages[i].URL \in failing
                                 THEN "store error" ELSE NoErr,
                       lists |-> 1,
                       reads |-> Len(listed.pages)] :
                         items \in SortSlice(FeedItems(listed.pages, verified.mode, failing))} :
                       listed \in GetCrawledPagesSince(FALSE, oldestDate)}

\* GetFeed: the outcomes of one call, with the number of GetCrawledPagesSince calls
\* (lists) and of ReadAnalysisResult calls (reads) it made
GetFeed(GetAllError, failing, maxArticles, oldestDate, modeStr) ==
    LET verified == VerifyValidMode(modeStr)
    IN  IF GetAllError
        THEN {[items |-> << >>, err |-> "store error", lists |-> 1, reads |-> 0]}
        ELSE IF verified.err # NoErr
             THEN {[items |-> << >>, err |-> verified.err, lists |-> 1, reads |-> 0]}
             ELSE UNION
                    {{[items |-> IF Len(items) > maxArticles
                                 THEN SubSeq(items, 1, maxArticles) ELSE items,
                       err   |-> NoErr,
                       lists |-> 1,
                       reads |-> Len(listed.pages)] :
                         items \in SortSlice(FeedItems(listed.pages, verified.mode, failing))} :
                       listed \in GetCrawledPagesSince(FALSE, oldestDate)}

\* a page is crawled and stored
FeedCrawl(p) ==
    /\ UrlToCrawledPageKey(p.url) \notin DOMAIN Pages
    /\ Pages' = WriteCrawledPage(FALSE, p.url, p.title, <<"c">>, p.datetime).store
    /\ fdop' = "write"
    /\ fdarg' = << >>
    /\ fdret' = << >>
    /\ fdio' = [lists |-> 0, reads |-> 0]
    /\ UNCHANGED <<AnalysisResults, analyzeVars, keyVars, fetchVars, pureVars, storeVars, batchVars>>

\* the analysis result of a crawled page is stored
FeedAnalyze(a) ==
    /\ UrlToCrawledPageKey(a.url) \in DOMAIN Pages
    /\ UrlToAnalysisKey(a.url, a.res.Mode) \notin DOMAIN AnalysisResults
    /\ AnalysisResults' = WriteAnalysisResult(FALSE, FALSE, a.url, a.res).store
    /\ fdop' = "write"
    /\ fdarg' = << >>
    /\ fdret' = << >>
    /\ fdio' = [lists |-> 0, reads |-> 0]
    /\ UNCHANGED <<Pages, analyzeVars, keyVars, fetchVars, pureVars, storeVars, batchVars>>

\* a call of GetCrawledPagesSince
CallGetCrawledPagesSince(GetAllError, oldestDate) ==
    /\ \E out \in GetCrawledPagesSince(GetAllError, oldestDate) : fdret' = out
    /\ fdop' = "GetCrawledPagesSince"
    /\ fdarg' = <<oldestDate>>
    /\ fdio' = [lists |-> 1, reads |-> 0]
    /\ UNCHANGED <<AnalysisResults, Pages, analyzeVars, keyVars, fetchVars, pureVars, storeVars, batchVars>>

\* a call of GetFeed; GetAllError tells whether the listing fails, failing holds the
\* pages whose analysis read fails during the call
CallGetFeed(GetAllError, failing, maxArticles, oldestDate, modeStr) ==
    /\ \E out \in GetFeed(GetAllError, failing, maxArticles, oldestDate, modeStr) :
          /\ fdret' = [items |-> out.items, err |-> out.err]
          /\ fdio' = [lists |-> out.lists, reads |-> out.reads]
    /\ fdop' = "GetFeed"
    /\ fdarg' = <<maxArticles, oldestDate, modeStr, failing, GetAllError>>
    /\ UNCHANGED <<AnalysisResults, Pages, analyzeVars, keyVars, fetchVars, pureVars, storeVars, batchVars>>

(* ---------------------------- specification ---------------------------- *)

\* the registry as built, an empty analysis store, no analyze call running
AnalyzeInit ==
    /\ PromptTemplates = (AnalysisModeJoke :> [Template |-> JokePromptTemplate]) @@
                         (AnalysisModeTest :> [Template |-> TestPromptTemplate])
    /\ edits = 0
    /\ AnalysisResults = << >>
    /\ pc = [r \in Requests |-> "idle"]
    /\ page = [r \in Requests |-> [URL |-> << >>, Title |-> << >>, Content |-> << >>]]
    /\ reqMode = [r \in Requests |-> << >>]
    /\ ctxDone = [r \in Requests |-> FALSE]
    /\ fingerprint = [r \in Requests |-> 0]
    /\ result = [r \in Requests |-> {}]
    /\ jsonText = [r \in Requests |-> << >>]
    /\ ret = [r \in Requests |-> [result |-> {}, err |-> NoErr]]
    /\ llmCalls = [r \in Requests |-> 0]
    /\ storeReads = [r \in Requests |-> 0]
    /\ storeWrites = [r \in Requests |-> 0]
    /\ readSeen = [r \in Requests |-> NoRead]
    /\ fault = [r \in Requests |-> "none"]
    /\ calls = 0
    /\ lastWriter = << >>
    /\ lastStored = << >>

\* no key derivation under way
KeyIdle ==
    /\ kpc = "off"
    /\ urlParts = << >>
    /\ keyModes = << >>
    /\ knormalized = << >>
    /\ fetchURL = << >>
    /\ renormalized = << >>
    /\ readBack = [page |-> FALSE, analysis |-> FALSE]

\* an empty page store, no side file, no fetch running
FetchInit ==
    /\ Pages = << >>
    /\ fpc = "idle"
    /\ furl = << >>
    /\ fnormalizedURL = << >>
    /\ fret = [page |-> {}, path |-> << >>, err |-> NoErr]
    /\ files = << >>
    /\ fetched = {}
    /\ httpGets = 0
    /\ pageReads = 0
    /\ pageWrites = 0
    /\ fileWrites = 0
    /\ ffault = "none"
    /\ fcalls = 0
    /\ now = 1

\* no single function call made
PureIdle ==
    /\ pfn = "none"
    /\ pin = << >>
    /\ pout = << >>
    /\ fpLog = {}

\* no single store call made
StoreIdle ==
    /\ sop = "none"
    /\ sarg = << >>
    /\ sret = << >>
    /\ pageLog = << >>
    /\ analysisLog = << >>
    /\ swrites = 0

\* no feed query made
FeedIdle ==
    /\ fdop = "none"
    /\ fdarg = << >>
    /\ fdret = << >>
    /\ fdio = [lists |-> 0, reads |-> 0]

\* the crawler command has not been started
BatchIdle ==
    /\ cpc = "idle"
    /\ crun = "none"
    /\ cmode = << >>
    /\ citems = << >>
    /\ cmax = 0
    /\ ci = 0
    /\ cpages = << >>
    /\ cfetchErrors = << >>
    /\ crss = [pages |-> << >>, err |-> NoErr]
    /\ cexit = "running"
    /\ cattempts = << >>
    /\ canalyzed = << >>

\* NewMockDatastoreClient and the registry as built: empty stores, no call running
Init == AnalyzeInit /\ KeyIdle /\ FetchInit /\ PureIdle /\ StoreIdle /\ FeedIdle /\ BatchIdle

Next ==
    \/ \E r \in Requests, in \in CallInputs : AnalyzeStart(r, in[1], in[2])
    \/ \E r \in Requests : AnalyzeReadCache(r)
    \/ \E r \in Requests : AnalyzeCallLlm(r)
    \/ \E r \in Requests : AnalyzeWriteCache(r)
    \/ \E r \in Requests : CtxCancel(r)
    \/ \E mode \in ModeInputs, text \in EditedTemplates \cup {JokePromptTemplate, TestPromptTemplate} :
          Redeploy(mode, text)

Spec == Init /\ [][Next]_vars

\* two URL arguments and two modes, empty stores
KeyInit ==
    /\ AnalyzeInit
    /\ FetchInit
    /\ PureIdle
    /\ StoreIdle
    /\ FeedIdle
    /\ BatchIdle
    /\ kpc = "input"
    /\ urlParts \in { <<p, q>> : p \in UrlPartsInputs, q \in UrlPartsVariants }
    /\ keyModes \in { <<AnalysisModeJoke, m>> : m \in {AnalysisModeJoke, AnalysisModeTest} }
    /\ knormalized = << >>
    /\ fetchURL = << >>
    /\ renormalized = << >>
    /\ readBack = [page |-> FALSE, analysis |-> FALSE]

KeyNext ==
    \/ KeyNormalize
    \/ KeyAddProtocol
    \/ KeyCrawlFirst
    \/ KeyCrawlSecond
    \/ KeyWriteRaw
    \/ KeyReadRaw

\* the key derivation of two URLs, step by step
KeySpec == KeyInit /\ [][KeyNext]_vars

FetchNext ==
    \/ \E url \in FetchUrls : FetchStart(url)
    \/ FetchReadStore
    \/ FetchHttp
    \/ FetchWriteStore

\* FetchArticleContent called again and again on one store and one cache directory
FetchSpec == Init /\ [][FetchNext]_vars

PureNext ==
    \/ \E mode \in VerifyInputs : CallVerifyValidMode(mode)
    \/ \E mode \in ModeInputs : CallGeneratePromptFingerprint(mode)
    \/ \E mode \in ModeInputs, title \in TitleInputs, content \in ContentInputs :
          CallGeneratePrompt(mode, title, content)
    \/ \E rawResponse \in ParseInputs : CallParseJSONResponse(rawResponse)
    \/ \E jsonStr \in JokeJsonInputs, fp \in FingerprintInputs :
          CallProcessJokeResponse(jsonStr, fp)

\* the functions of the registry, the prompt builder, the parser and the converter called
\* one by one
PureSpec == Init /\ [][PureNext]_vars

FingerprintNext ==
    \/ \E mode \in ModeInputs : CallGeneratePromptFingerprint(mode)
    \/ \E mode \in ModeInputs, text \in DeployedTemplates : Redeploy(mode, text)

\* fingerprints taken in processes that are redeployed with other template texts in
\* between
FingerprintSpec == Init /\ [][FingerprintNext]_vars

\* a call of parseJSONResponse on a generated text
ParseNext ==
    \E rawResponse \in RawResponses : CallParseJSONResponse(rawResponse)

\* parseJSONResponse called on one generated text after another
ParseSpec == Init /\ [][ParseNext]_vars

(* ------------------------------- pipeline ------------------------------ *)

\* the URLs the crawler command is run with: two pages whose document IDs are equal,
\* one given with a scheme and a query string
PipelineUrls == { <<"h", "t", "t", "p", "s", ":", "/", "/", "x", ".", "c", "o", "m", "/", "a", "/", "b", "?", "y">>,
                  <<"x", ".", "c", "o", "m", "/", "a", "_", "b">> }

\* the number of runs of the crawler command
MaxRuns == 2

\* the feed queries of the web application: every page crawled so far is in the window
PipelineQueries ==
    { [maxArticles |-> MaxArticles, oldestDate |-> 1, modeStr |-> <<"j", "o", "k", "e">>] }

\* runURLMode, line 127: a run of the command calls FetchArticleContent; the runs
\* come one after another
PipelineFetch(url) ==
    /\ pc[1] \in {"idle", "done"}
    /\ fcalls < MaxRuns
    /\ FetchStart(url)

\* runURLMode, lines 128-137: the page FetchArticleContent returned is analyzed; a run
\* analyzes after it has fetched, so there are never more analyses than fetches
PipelineAnalyze(mode) ==
    /\ fpc = "done"
    /\ fret.err = NoErr
    /\ calls < fcalls
    /\ \E pg \in fret.page :
          AnalyzeStart(1, [URL |-> pg.URL, Title |-> pg.Title, Content |-> pg.Content], mode)

\* a feed query made while the crawler is between two calls
PipelineFeed(q) ==
    /\ pc[1] \in {"idle", "done"}
    /\ fpc \in {"idle", "done"}
    /\ CallGetFeed(FALSE, {}, q.maxArticles, q.oldestDate, q.modeStr)

PipelineNext ==
    \/ \E url \in PipelineUrls : PipelineFetch(url)
    \/ FetchReadStore
    \/ FetchHttp
    \/ FetchWriteStore
    \/ \E mode \in {AnalysisModeJoke, AnalysisModeTest} : PipelineAnalyze(mode)
    \/ AnalyzeReadCache(1)
    \/ AnalyzeCallLlm(1)
    \/ AnalyzeWriteCache(1)
    \/ \E text \in EditedTemplates : Redeploy(AnalysisModeJoke, text)
    \/ \E q \in PipelineQueries : PipelineFeed(q)

\* page resolutions, analyze calls on the resolved pages and feed queries, one after
\* another on one store
PipelineSpec == Init /\ [][PipelineNext]_vars

(* ---------------------------- crawler command -------------------------- *)

\* the links of the items of an RSS feed; an item may have no link
RssLinkA == <<"h", "t", "t", "p", "s", ":", "/", "/", "x", ".", "c", "o", "m", "/", "a", "?", "y", "=", "1">>
RssLinkB == <<"x", ".", "c", "o", "m", "/", "b">>
NoLink == << >>

\* the RSS feeds the command is run on, each by the links of its items
RssFeeds ==
    { << >>,
      <<NoLink>>,
      <<RssLinkA>>,
      <<RssLinkA, RssLinkB>>,
      <<RssLinkA, NoLink, RssLinkB>>,
      <<RssLinkB, RssLinkB>> }

\* FetchArticleContent(ctx, url, verbose, datastoreClient) as one call: what it
\* returns (page, err), the page store and the side files it leaves, and whether it
\* wrote the store
FetchArticleContentCall(url) ==
    LET normalizedURL == NormalizeURL(url)
        cachePath == getFileCachePath(normalizedURL)
        opened(content) == [f \in DOMAIN files \cup {cachePath} |->
                               IF f = cachePath THEN content ELSE files[f]]
        failed(err, fs) == [page |-> {}, err |-> err, store |-> Pages, files |-> fs,
                            wrote |-> FALSE]
        rd == ReadCrawledPage(FALSE, normalizedURL)
    IN  { failed("error getting cache path", files),
          failed("error opening cache file", files),
          failed("error getting crawled page from Datastore", opened(<< >>)) } \cup
        ( IF rd.found
          THEN { [page |-> rd.page, err |-> NoErr, store |-> Pages,
                  files |-> opened(IF WriteError THEN << >> ELSE pg.Content),
                  wrote |-> FALSE] : pg \in rd.page, WriteError \in BOOLEAN }
          ELSE UNION
                 { IF out.err # NoErr
                   THEN { failed(out.err, opened(<< >>)) }
                   ELSE { failed("error saving crawled page to Datastore", opened(<< >>)) } \cup
                        { [page  |-> WriteCrawledPage(FALSE, normalizedURL, out.title,
                                                      out.text, now).page,
                           err   |-> NoErr,
                           store |-> WriteCrawledPage(FALSE, normalizedURL, out.title,
                                                      out.text, now).store,
                           files |-> opened(IF WriteError THEN << >> ELSE out.text),
                           wrote |-> TRUE] : WriteError \in BOOLEAN } :
                   out \in HttpGet(AddProtocol(normalizedURL)) } )

\* Analyze(ctx, page, apiKey, mode, datastoreClient, verbose) as one call: what it
\* returns (result, err) and the analysis store it leaves
AnalyzeCall(pg, mode) ==
    LET g  == GeneratePromptFingerprint(mode)
        rd == ReadAnalysisResult(FALSE, FALSE, pg.URL, mode)
        pr == GeneratePrompt(mode, pg.Title, pg.Content)
        failed(err) == [result |-> {}, err |-> err, store |-> AnalysisResults]
        converted(response) ==
            LET js   == parseJSONResponse(response)
                conv == ProcessResponse(mode, js.json, g.fp)
            IN  IF js.err
                THEN { failed("error extracting JSON from response") }
                ELSE IF conv.err
                     THEN { failed("error parsing JSON") }
                     ELSE { [result |-> conv.result, err |-> NoErr,
                             store  |-> WriteAnalysisResult(CreateAnalysisError, FALSE,
                                                            pg.URL, res).store] :
                               res \in conv.result, CreateAnalysisError \in BOOLEAN }
    IN  IF g.err
        THEN { failed("error generating prompt fingerprint") }
        ELSE { failed("error checking analysis cache") } \cup
             ( IF rd.found /\ \A c \in rd.result : c.PromptFingerprint = g.fp
               THEN { [result |-> rd.result, err |-> NoErr, store |-> AnalysisResults] }
               ELSE IF pr.err
                    THEN { failed("error generating prompt") }
                    ELSE UNION { IF out.err
                                 THEN { failed("error analyzing content") }
                                 ELSE converted(out.response) :
                                   out \in LlmAnalyze(FALSE, pr.prompt) } )

\* the process ends: os.Exit(1) of log.Fatalf, or the return of main
Exit(status) ==
    /\ cpc' = "exit"
    /\ cexit' = status

\* runRSSMode, line 152, and FetchRSSArticles, lines 24-43: the feed is parsed and the
\* number of items to fetch is set; a feed that cannot be parsed ends the run
StartRSS(ParseError, items, maxArticles, mode) ==
    /\ cpc = "idle"
    /\ crun' = "rss"
    /\ cmode' = mode
    /\ citems' = items
    /\ cmax' = maxArticles
    /\ IF ParseError
       THEN /\ crss' = [pages |-> << >>, err |-> "error parsing RSS feed"]
            /\ Exit("fatal")
            /\ UNCHANGED ci
       ELSE /\ cpc' = "rss"
            /\ ci' = 1
            /\ UNCHANGED <<crss, cexit>>
    /\ UNCHANGED <<cpages, cfetchErrors, cattempts, canalyzed>>
    /\ UNCHANGED <<AnalysisResults, Pages, analyzeVars, keyVars, fetchVars, pureVars, storeVars,
                   feedVars>>

\* the number of items FetchRSSArticles fetches, lines 34-38
itemsToFetch == IF Len(citems) < cmax THEN Len(citems) ELSE cmax

\* FetchRSSArticles, lines 47-74: one turn of the loop; an item without a link is
\* passed over, a failed fetch is noted and the loop goes on
RssFetchItem ==
    /\ cpc = "rss"
    /\ ci <= itemsToFetch
    /\ ci' = ci + 1
    /\ LET articleURL == citems[ci]
       IN  IF articleURL = NoLink
           THEN UNCHANGED <<Pages, files, now, cpages, cfetchErrors, cattempts>>
           ELSE \E out \in FetchArticleContentCall(articleURL) :
                   /\ Pages' = out.store
                   /\ files' = out.files
                   /\ now' = IF out.wrote THEN now + 1 ELSE now
                   /\ cattempts' = Append(cattempts, [url |-> articleURL, err |-> out.err])
                   /\ IF out.err # NoErr
                      THEN /\ cfetchErrors' = Append(cfetchErrors, articleURL)
                           /\ UNCHANGED cpages
                      ELSE /\ \E pg \in out.page : cpages' = Append(cpages, pg)
                           /\ UNCHANGED cfetchErrors
    /\ UNCHANGED <<cpc, crun, cmode, citems, cmax, crss, cexit, canalyzed>>
    /\ UNCHANGED <<fpc, furl, fnormalizedURL, fret, fetched, httpGets, pageReads,
                   pageWrites, fileWrites, ffault, fcalls>>
    /\ UNCHANGED <<AnalysisResults, analyzeVars, keyVars, pureVars, storeVars, feedVars>>

\* variant of the return of FetchRSSArticles that gives no page when a fetch failed
FetchRSSArticlesReturn_AllOrNothing ==
    IF Len(cfetchErrors) > 0
    THEN [pages |-> << >>, err |-> "failed to fetch any articles"]
    ELSE [pages |-> cpages, err |-> NoErr]

\* FetchRSSArticles, lines 76-94: what the function returns after the loop
FetchRSSArticlesReturn ==
    IF Len(cpages) = 0 /\ Len(cfetchErrors) > 0
    THEN [pages |-> << >>, err |-> "failed to fetch any articles"]
    ELSE IF Len(cpages) > 0 /\ Len(cfetchErrors) > 0
         THEN [pages |-> cpages, err |-> "partial success"]
         ELSE [pages |-> cpages, err |-> NoErr]

\* FetchRSSArticles returns and runRSSMode, lines 153-165, goes on with the pages it
\* got or ends the run when there are none
RssFetched ==
    /\ cpc = "rss"
    /\ ci > itemsToFetch
    /\ crss' = FetchRSSArticlesReturn
    /\ IF Len(FetchRSSArticlesReturn.pages) = 0
       THEN /\ Exit("fatal")
            /\ UNCHANGED ci
       ELSE /\ cpc' = "analyze"
            /\ ci' = 1
            /\ UNCHANGED cexit
    /\ UNCHANGED <<crun, cmode, citems, cmax, cpages, cfetchErrors, cattempts, canalyzed>>
    /\ UNCHANGED <<AnalysisResults, Pages, analyzeVars, keyVars, fetchVars, pureVars, storeVars,
                   feedVars>>

\* variant of the loop over the pages that ends the run at the first failed analysis
RssAnalyzePage_StopsOnError ==
    /\ cpc = "analyze"
    /\ ci <= Len(crss.pages)
    /\ ci' = ci + 1
    /\ \E out \in AnalyzeCall(crss.pages[ci], cmode) :
          /\ AnalysisResults' = out.store
          /\ canalyzed' = Append(canalyzed, [page |-> crss.pages[ci], err |-> out.err,
                                             displayed |-> out.err = NoErr])
          /\ IF out.err # NoErr THEN Exit("fatal") ELSE UNCHANGED <<cpc, cexit>>
    /\ UNCHANGED <<crun, cmode, citems, cmax, cpages, cfetchErrors, crss, cattempts>>
    /\ UNCHANGED <<Pages, analyzeVars, keyVars, fetchVars, pureVars, storeVars, feedVars>>

\* runRSSMode, lines 171-188: one turn of the loop over the pages; a failed analysis
\* is logged and the loop goes on, a result is displayed
RssAnalyzePage ==
    /\ cpc = "analyze"
    /\ ci <= Len(crss.pages)
    /\ ci' = ci + 1
    /\ \E out \in AnalyzeCall(crss.pages[ci], cmode) :
          /\ AnalysisResults' = out.store
          /\ canalyzed' = Append(canalyzed, [page |-> crss.pages[ci], err |-> out.err,
                                             displayed |-> out.err = NoErr])
    /\ UNCHANGED <<cpc, crun, cmode, citems, cmax, cpages, cfetchErrors, crss, cexit, cattempts>>
    /\ UNCHANGED <<Pages, analyzeVars, keyVars, fetchVars, pureVars, storeVars, feedVars>>

\* runRSSMode returns after the last page
RssDone ==
    /\ cpc = "analyze"
    /\ ci > Len(crss.pages)
    /\ Exit("ok")
    /\ UNCHANGED <<crun, cmode, citems, cmax, ci, cpages, cfetchErrors, crss, cattempts, canalyzed>>
    /\ UNCHANGED <<AnalysisResults, Pages, analyzeVars, keyVars, fetchVars, pureVars, storeVars,
                   feedVars>>

\* runURLMode, lines 119-130: the article is fetched; a failed fetch ends the run
StartURL(url, mode) ==
    /\ cpc = "idle"
    /\ crun' = "url"
    /\ cmode' = mode
    /\ \E out \in FetchArticleContentCall(url) :
          /\ Pages' = out.store
          /\ files' = out.files
          /\ now' = IF out.wrote THEN now + 1 ELSE now
          /\ cattempts' = Append(cattempts, [url |-> url, err |-> out.err])
          /\ IF out.err # NoErr
             THEN /\ Exit("fatal")
                  /\ cfetchErrors' = Append(cfetchErrors, url)
                  /\ UNCHANGED cpages
             ELSE /\ cpc' = "url"
                  /\ \E pg \in out.page : cpages' = <<pg>>
                  /\ UNCHANGED <<cexit, cfetchErrors>>
    /\ UNCHANGED <<citems, cmax, ci, crss, canalyzed>>
    /\ UNCHANGED <<fpc, furl, fnormalizedURL, fret, fetched, httpGets, pageReads,
                   pageWrites, fileWrites, ffault, fcalls>>
    /\ UNCHANGED <<AnalysisResults, analyzeVars, keyVars, pureVars, storeVars, feedVars>>

\* runURLMode, lines 132-141: the page is analyzed; a failed analysis ends the run,
\* a result is displayed
UrlAnalyze ==
    /\ cpc = "url"
    /\ \E out \in AnalyzeCall(cpages[1], cmode) :
          /\ AnalysisResults' = out.store
          /\ canalyzed' = Append(canalyzed, [page |-> cpages[1], err |-> out.err,
                                             displayed |-> out.err = NoErr])
          /\ Exit(IF out.err # NoErr THEN "fatal" ELSE "ok")
    /\ UNCHANGED <<crun, cmode, citems, cmax, ci, cpages, cfetchErrors, crss, cattempts>>
    /\ UNCHANGED <<Pages, analyzeVars, keyVars, fetchVars, pureVars, storeVars, feedVars>>

BatchNext ==
    \/ \E ParseError \in BOOLEAN, items \in RssFeeds, maxArticles \in -1..MaxArticles,
          mode \in {AnalysisModeJoke, AnalysisModeTest} :
          StartRSS(ParseError, items, maxArticles, mode)
    \/ RssFetchItem
    \/ RssFetched
    \/ RssAnalyzePage
    \/ RssDone
    \/ \E url \in {RssLinkA, RssLinkB}, mode \in {AnalysisModeJoke, AnalysisModeTest} :
          StartURL(url, mode)
    \/ UrlAnalyze

\* one run of the crawler command, in RSS mode or in URL mode, on an empty store
BatchSpec == Init /\ [][BatchNext]_vars

StoreNext ==
    \/ \E url \in StoreUrls, title \in StoreTitles, datetime \in StoreDatetimes,
          CreateError \in BOOLEAN :
          StoreWritePage(url, title, <<"c">>, datetime, CreateError)
    \/ \E url \in StoreUrls, GetError \in BOOLEAN : StoreReadPage(url, GetError)
    \/ \E url \in StoreUrls, res \in StoreResults, CreateAnalysisError \in BOOLEAN :
          StoreWriteAnalysis(url, res, CreateAnalysisError)
    \/ \E url \in StoreUrls, mode \in {AnalysisModeJoke, AnalysisModeTest},
          GetAnalysisError \in BOOLEAN :
          StoreReadAnalysis(url, mode, GetAnalysisError)

\* the four entry operations of the store called in any order
StoreSpec == Init /\ [][StoreNext]_vars

FeedNext ==
    \/ \E p \in FeedPages : FeedCrawl(p)
    \/ \E a \in FeedAnalyses : FeedAnalyze(a)
    \/ \E GetAllError \in BOOLEAN, oldestDate \in OldestDates :
          CallGetCrawledPagesSince(GetAllError, oldestDate)
    \/ \E q \in FeedQueries :
          CallGetFeed(q.GetAllError, q.failing, q.maxArticles, q.oldestDate, q.modeStr)

\* pages crawled and analyzed, and the feed queried in between
FeedSpec == Init /\ [][FeedNext]_vars

(* ------------------------------ properties ---------------------------- *)

\* the store key of the call request r is running or has run
KeyOf(r) == UrlToAnalysisKey(page[r].URL, reqMode[r])

\* the fingerprint of a mode's current template
CurrentFingerprint(mode) == GeneratePromptFingerprint(mode).fp

\* the store holds, under key k, a result tagged with the current fingerprint of mode
Valid(k, mode) ==
    /\ k \in DOMAIN AnalysisResults
    /\ AnalysisResults[k].PromptFingerprint = CurrentFingerprint(mode)

\* the store holds, under key k, a result tagged with another fingerprint
Stale(k, mode) ==
    /\ k \in DOMAIN AnalysisResults
    /\ AnalysisResults[k].PromptFingerprint # CurrentFingerprint(mode)

\* C1 - cache-hit short-circuit: when analyze reads the cache and the store holds,
\* for the page's URL and the mode, a result whose fingerprint equals the fingerprint
\* of the mode's current template, the call ends at that step with zero LLM calls,
\* no store write and the store unchanged, and what the read returns is returned
\* to the caller: exactly the stored result.
C1_CacheHitShortCircuit ==
    [][\A r \in Requests :
          (pc[r] = "read" /\ pc'[r] # "read" /\ Valid(KeyOf(r), reqMode[r]))
          => /\ pc'[r] = "done"
             /\ llmCalls'[r] = 0
             /\ storeWrites'[r] = 0
             /\ AnalysisResults' = AnalysisResults
             /\ (fault'[r] # "read"
                 => ret'[r] = [result |-> {AnalysisResults[KeyOf(r)]}, err |-> NoErr])
      ]_vars

\* C1 witness: a call found a valid entry and returned it without an LLM call
C1_Witness ==
    \E r \in Requests :
        /\ pc[r] = "done"
        /\ storeReads[r] = 1
        /\ readSeen[r].found
        /\ llmCalls[r] = 0
        /\ storeWrites[r] = 0
        /\ Valid(KeyOf(r), reqMode[r])
        /\ ret[r] = [result |-> {AnalysisResults[KeyOf(r)]}, err |-> NoErr]

\* C2 - fingerprint-mismatch bypass: when the read finds a result whose fingerprint
\* differs from the current one, analyze does not return it but goes on to the LLM;
\* a call whose LLM call, parse and convert succeed holds a result tagged with the
\* current fingerprint; such a call that had found an entry returns, after exactly
\* one LLM call, that new result (not the one read), and its write, when the store
\* accepts it, replaces the entry under the key by the new result.
C2_StaleBypass ==
    [][\A r \in Requests :
          LET k   == KeyOf(r)
              cur == CurrentFingerprint(reqMode[r])
          IN  /\ (pc[r] = "read" /\ pc'[r] # "read" /\ Stale(k, reqMode[r])
                     /\ fault'[r] # "read")
                 => (pc'[r] = "llm" /\ ret'[r].result = {})
              /\ (pc[r] = "llm" /\ pc'[r] = "write")
                 => /\ llmCalls'[r] = 1
                    /\ result'[r] # {}
                    /\ \A x \in result'[r] : x.PromptFingerprint = cur
              /\ (pc[r] = "write" /\ pc'[r] = "done" /\ readSeen[r].found)
                 => /\ llmCalls'[r] = 1
                    /\ ret'[r] = [result |-> result[r], err |-> NoErr]
                    /\ ret'[r].result # {}
                    /\ \A x \in ret'[r].result :
                          x.PromptFingerprint = cur /\ x \notin readSeen[r].result
                    /\ (fault'[r] # "write"
                        => /\ k \in DOMAIN AnalysisResults'
                           /\ AnalysisResults'[k] \in ret'[r].result)
      ]_vars

\* C2 witness: a call found a stale entry, called the LLM once and replaced the entry
C2_Witness ==
    \E r \in Requests :
        /\ pc[r] = "done"
        /\ readSeen[r].found
        /\ \A x \in readSeen[r].result : x.PromptFingerprint # CurrentFingerprint(reqMode[r])
        /\ llmCalls[r] = 1
        /\ storeWrites[r] = 1
        /\ fault[r] = "none"
        /\ ret[r].err = NoErr
        /\ AnalysisResults[KeyOf(r)] \in ret[r].result
        /\ AnalysisResults[KeyOf(r)].PromptFingerprint = CurrentFingerprint(reqMode[r])

\* C3 - idempotent re-analysis: once an analyze call for (url, mode) has called the
\* LLM and its cache write has succeeded, every later cache read of an analyze call
\* for the same key, with the template unchanged, ends the call with zero LLM calls,
\* and the result the read returns, which the call returns, is the result stored last.
C3_IdempotentReanalysis ==
    [][\A r \in Requests :
          (pc[r] = "read" /\ pc'[r] # "read" /\ KeyOf(r) \in DOMAIN lastStored)
          => /\ pc'[r] = "done"
             /\ llmCalls'[r] = 0
             /\ (fault'[r] # "read"
                 => ret'[r] = [result |-> {lastStored[KeyOf(r)]}, err |-> NoErr])
      ]_vars

\* C3 witness: after a call that called the LLM and stored its result, a later call
\* for the same key returned the stored result with no LLM call
C3_Witness ==
    \E r \in Requests :
        /\ pc[r] = "done"
        /\ calls = 2
        /\ KeyOf(r) \in DOMAIN lastStored
        /\ storeReads[r] = 1
        /\ llmCalls[r] = 0
        /\ storeWrites[r] = 0
        /\ ret[r] = [result |-> {lastStored[KeyOf(r)]}, err |-> NoErr]

\* C4 - every result that enters the store is written by a call at its write step and
\* carries the fingerprint that call computed at its start, which is the fingerprint
\* of the mode's current template and differs from the fingerprint of the entry the
\* call had read.
C4_WrittenFingerprintIsCurrent ==
    [][\A k \in DOMAIN AnalysisResults' :
          (k \notin DOMAIN AnalysisResults \/ AnalysisResults'[k] # AnalysisResults[k]
              \/ \E w \in Requests : pc[w] = "write" /\ pc'[w] = "done"
                                     /\ fault'[w] # "write" /\ KeyOf(w) = k)
          => \E r \in Requests :
                /\ pc[r] = "write" /\ pc'[r] = "done"
                /\ KeyOf(r) = k
                /\ AnalysisResults'[k].PromptFingerprint = fingerprint[r]
                /\ fingerprint[r] = CurrentFingerprint(reqMode[r])
                /\ \A x \in readSeen[r].result :
                      AnalysisResults'[k].PromptFingerprint # x.PromptFingerprint
      ]_vars

\* C4 witness: a test-mode call and a joke-mode call have each stored a result tagged
\* with the current fingerprint of their mode
C4_Witness ==
    /\ \E r \in Requests :
          /\ pc[r] = "done" /\ storeWrites[r] = 1 /\ fault[r] = "none"
          /\ reqMode[r] = AnalysisModeTest
          /\ AnalysisResults[KeyOf(r)].PromptFingerprint = CurrentFingerprint(AnalysisModeTest)
    /\ \E r \in Requests :
          /\ pc[r] = "done" /\ storeWrites[r] = 1 /\ fault[r] = "none"
          /\ reqMode[r] = AnalysisModeJoke
          /\ AnalysisResults[KeyOf(r)].PromptFingerprint = CurrentFingerprint(AnalysisModeJoke)

\* C5 - last write wins: for every key, when the request that wrote the key last is
\* still at the end of that call, the entry in the store under the key is the result
\* that request wrote and returned, whatever other requests for the key wrote before.
\* (That two concurrent requests for one key both miss and both call the LLM is the
\* reachable state C5_Witness.)
C5_LastWriteWins ==
    \A k \in DOMAIN lastWriter :
        LET w == lastWriter[k]
        IN  (pc[w] = "done" /\ storeWrites[w] = 1 /\ fault[w] = "none" /\ KeyOf(w) = k)
            => /\ k \in DOMAIN AnalysisResults
               /\ AnalysisResults[k] \in ret[w].result

\* C5 witness: two requests for the same key have both missed the cache, both called
\* the LLM once and both written; they returned different results and the store
\* holds the result of the one that wrote last, not the other's
C5_Witness ==
    \E r1 \in Requests, r2 \in Requests :
        /\ r1 # r2
        /\ KeyOf(r1) = KeyOf(r2)
        /\ \A r \in {r1, r2} :
              /\ pc[r] = "done"
              /\ storeReads[r] = 1 /\ ~readSeen[r].found
              /\ llmCalls[r] = 1
              /\ storeWrites[r] = 1 /\ fault[r] = "none"
              /\ ret[r].err = NoErr
        /\ ret[r1].result # ret[r2].result
        /\ lastWriter[KeyOf(r2)] = r2
        /\ AnalysisResults[KeyOf(r2)] \in ret[r2].result
        /\ AnalysisResults[KeyOf(r2)] \notin ret[r1].result

\* C6 - best-effort cache write: when the write step of analyze fails, the call
\* returns the result it computed with no error and the store is left as it was; and
\* a call that reads a key whose entry is absent or stale goes on to the LLM call.
C6_BestEffortCacheWrite ==
    [][\A r \in Requests :
          /\ (pc[r] = "write" /\ pc'[r] = "done" /\ fault'[r] = "write")
             => /\ result[r] # {}
                /\ ret'[r] = [result |-> result[r], err |-> NoErr]
                /\ llmCalls'[r] = 1
                /\ AnalysisResults' = AnalysisResults
          /\ (pc[r] = "read" /\ pc'[r] # "read" /\ ~Valid(KeyOf(r), reqMode[r])
                 /\ fault'[r] # "read")
             => pc'[r] = "llm"
      ]_vars

\* C6 witness: a call whose write failed although the context was live returned its
\* result with no error, the key has no entry, and another call for the key, having
\* found nothing, has called the LLM
C6_Witness ==
    \E r \in Requests, q \in Requests :
        /\ r # q
        /\ pc[r] = "done" /\ fault[r] = "write" /\ ~ctxDone[r]
        /\ llmCalls[r] = 1 /\ storeWrites[r] = 1
        /\ ret[r].err = NoErr /\ ret[r].result # {}
        /\ KeyOf(r) \notin DOMAIN AnalysisResults
        /\ KeyOf(q) = KeyOf(r)
        /\ storeReads[q] = 1 /\ ~readSeen[q].found /\ ~readSeen[q].err
        /\ llmCalls[q] = 1

\* C7 - a failed cache read is fatal: a call whose store read failed has ended with
\* the error "error checking analysis cache" and no result, without an LLM call and
\* without a store write.
C7_ReadErrorFatal ==
    \A r \in Requests :
        fault[r] = "read"
        => /\ pc[r] = "done"
           /\ ret[r] = [result |-> {}, err |-> "error checking analysis cache"]
           /\ llmCalls[r] = 0
           /\ storeWrites[r] = 0

\* C7 witness: the store failed the read of a call with a live context while it held
\* an entry under the call's key
C7_Witness ==
    \E r \in Requests :
        /\ fault[r] = "read" /\ ~ctxDone[r]
        /\ pc[r] = "done" /\ storeReads[r] = 1
        /\ KeyOf(r) \in DOMAIN AnalysisResults

\* C8 - the store changes only in a write step that ends its call without error: the
\* start of a call (fingerprint step, where an unknown mode fails) and every step
\* that takes a call from the cache read or the LLM step to its end leave the store
\* as it was, and a call that ends with an error has made no store write and
\* returns no result.
C8_ErrorExitsLeaveStore ==
    [][/\ (calls' # calls => AnalysisResults' = AnalysisResults)
       /\ \A r \in Requests :
             (pc[r] \in {"read", "llm"} /\ pc'[r] # pc[r])
             => AnalysisResults' = AnalysisResults
       /\ \A r \in Requests :
             (pc'[r] = "done" /\ ret'[r].err # NoErr)
             => /\ pc[r] # "write"
                /\ storeWrites'[r] = 0
                /\ ret'[r].result = {}
       /\ (AnalysisResults' # AnalysisResults
           => \E r \in Requests : /\ pc[r] = "write" /\ pc'[r] = "done"
                                  /\ ret'[r].err = NoErr)
      ]_vars

\* C8 witness: a call read a stale entry, called the LLM and failed to convert the
\* answer; the entry it read is still in the store, with its old fingerprint
C8_Witness ==
    \E r \in Requests :
        /\ pc[r] = "done"
        /\ ret[r] = [result |-> {}, err |-> "error parsing JSON"]
        /\ llmCalls[r] = 1 /\ storeWrites[r] = 0
        /\ readSeen[r].found
        /\ Stale(KeyOf(r), reqMode[r])
        /\ readSeen[r].result = {AnalysisResults[KeyOf(r)]}

\* C9 - a call with a mode that is not in the registry has ended at the fingerprint
\* step with the error "error generating prompt fingerprint", with no store read, no
\* LLM call and no store write.
C9_UnknownModeFailsFirst ==
    \A r \in Requests :
        (pc[r] # "idle" /\ reqMode[r] \notin DOMAIN PromptTemplates)
        => /\ pc[r] = "done"
           /\ ret[r] = [result |-> {}, err |-> "error generating prompt fingerprint"]
           /\ storeReads[r] = 0
           /\ llmCalls[r] = 0
           /\ storeWrites[r] = 0

\* C9 witness: a call with the unknown mode has ended while the store holds an entry
\* for the same page
C9_Witness ==
    \E r \in Requests :
        /\ pc[r] = "done"
        /\ reqMode[r] = UnknownMode
        /\ ret[r].err = "error generating prompt fingerprint"
        /\ DOMAIN AnalysisResults # {}

\* C10 as stated: a call whose context was cancelled while it ran has returned an
\* error
C10_CancelReturnsError ==
    \A r \in Requests :
        (ctxDone[r] /\ pc[r] = "done") => ret[r].err # NoErr

\* C10 amended: the step a call takes with a cancelled context ends the call; at the
\* cache read it returns the error "error checking analysis cache" and at the LLM
\* call the error "error analyzing content", with the store unchanged; at the cache
\* write it returns the result it computed with no error, and the store is as it was
\* or holds that whole result under the key.
C10_CancelAborts ==
    [][\A r \in Requests :
          (ctxDone[r] /\ pc[r] \in {"read", "llm", "write"} /\ pc'[r] # pc[r])
          => /\ pc'[r] = "done"
             /\ pc[r] = "read"
                => /\ ret'[r] = [result |-> {}, err |-> "error checking analysis cache"]
                   /\ AnalysisResults' = AnalysisResults
             /\ pc[r] = "llm"
                => /\ ret'[r] = [result |-> {}, err |-> "error analyzing content"]
                   /\ AnalysisResults' = AnalysisResults
             /\ pc[r] = "write"
                => /\ ret'[r] = [result |-> result[r], err |-> NoErr]
                   /\ result[r] # {}
                   /\ \/ AnalysisResults' = AnalysisResults
                      \/ \E res \in result[r] :
                            AnalysisResults' =
                              [k \in DOMAIN AnalysisResults \cup {KeyOf(r)} |->
                                  IF k = KeyOf(r) THEN res ELSE AnalysisResults[k]]
      ]_vars

\* C10 witness: a call was cancelled at its write step and returned its result with
\* no error, while calls cancelled at the read and at the LLM step returned errors
C10_Witness ==
    \E r \in Requests, q \in Requests :
        /\ ctxDone[r] /\ pc[r] = "done" /\ fault[r] = "write"
        /\ ret[r].err = NoErr /\ ret[r].result # {}
        /\ ctxDone[q] /\ pc[q] = "done" /\ fault[q] \in {"read", "llm"}
        /\ ret[q].err # NoErr

\* C11 - step order of an analyze run: each of the cache read, the LLM call and the
\* cache write happens at most once per run; a run is at its LLM step only after one
\* cache read and before any LLM call, at its write step only after one LLM call and
\* before any write; the LLM has been called only after a cache read that succeeded
\* and returned nothing or an entry with another fingerprint; a cache write has been
\* made only after an LLM call whose answer was parsed and converted into a result.
C11_StepOrder ==
    \A r \in Requests :
        /\ storeReads[r] \in {0, 1} /\ llmCalls[r] \in {0, 1} /\ storeWrites[r] \in {0, 1}
        /\ pc[r] \in {"idle", "read"}
           => (storeReads[r] = 0 /\ llmCalls[r] = 0 /\ storeWrites[r] = 0)
        /\ pc[r] = "llm"
           => (storeReads[r] = 1 /\ llmCalls[r] = 0 /\ storeWrites[r] = 0)
        /\ pc[r] = "write"
           => (storeReads[r] = 1 /\ llmCalls[r] = 1 /\ storeWrites[r] = 0)
        /\ llmCalls[r] = 1
           => /\ storeReads[r] = 1
              /\ ~readSeen[r].err
              /\ fault[r] # "read"
              /\ \A x \in readSeen[r].result : x.PromptFingerprint # fingerprint[r]
        /\ storeWrites[r] = 1
           => /\ llmCalls[r] = 1
              /\ fault[r] # "llm"
              /\ result[r] # {}
              /\ pc[r] = "done"
              /\ ret[r] = [result |-> result[r], err |-> NoErr]

\* C11 witness: one run went through read, LLM call and write, each once, and
\* another run ended at the cache read with the entry the first had stored
C11_Witness ==
    \E r \in Requests, q \in Requests :
        /\ r # q
        /\ pc[r] = "done" /\ pc[q] = "done"
        /\ storeReads[r] = 1 /\ llmCalls[r] = 1 /\ storeWrites[r] = 1 /\ fault[r] = "none"
        /\ storeReads[q] = 1 /\ llmCalls[q] = 0 /\ storeWrites[q] = 0 /\ fault[q] = "none"
        /\ ret[q] = ret[r]
        /\ ret[q].result # {}

C13_KeyInsensitive ==
    (/\ kpc = "read"
     /\ urlParts[1].first \in {<< >>, SchemeHttp, SchemeHttps}
     /\ urlParts[1].second = << >>
     /\ urlParts[1].hostPath = urlParts[2].hostPath
     /\ urlParts[1].hostPath # << >>
     /\ \/ urlParts[1].query = urlParts[2].query
        \/ urlParts[1].first = urlParts[2].first)
    => (readBack.page /\ readBack.analysis)

\* C14 as stated, for URLs that do not end with a slash: after two URLs were crawled
\* and analyzed one after the other, pages
\* of different normalized URLs have different keys and analysis entries of different
\* (normalized URL, mode) pairs have different keys, so the first entry is still there
C14_KeyIdentifiesPair ==
    (/\ kpc = "crawled2"
     /\ \A i \in {1, 2} : ~HasSuffix(knormalized[i], <<"/">>))
    => /\ knormalized[1] # knormalized[2]
          => /\ Cardinality(DOMAIN Pages) = 2
             /\ \E k \in DOMAIN Pages : Pages[k].URL = knormalized[1]
       /\ (knormalized[1] # knormalized[2] \/ keyModes[1] # keyModes[2])
          => /\ Cardinality(DOMAIN AnalysisResults) = 2
             /\ \E k \in DOMAIN AnalysisResults :
                   AnalysisResults[k] = KeyResult(1, keyModes[1])

\* C15: a URL made of no scheme, http:// or https://, a host-and-path p without "?"
\* and an optional query is normalized to p, whatever the scheme and the query: the
\* text from the first "?" on (a fragment after it included) is dropped, a fragment
\* in p is kept, the empty string gives the empty string, and two such URLs with the
\* same p have the same normalized URL
C15_ProtocolQueryInsensitive ==
    kpc # "input"
    => /\ \A i \in {1, 2} :
             (urlParts[i].first \in {<< >>, SchemeHttp, SchemeHttps}
              /\ urlParts[i].second = << >>)
             => /\ knormalized[i] = urlParts[i].hostPath
                /\ Index(knormalized[i], "?") = 0
                /\ UrlOf(urlParts[i]) = << >> => knormalized[i] = << >>
       /\ (/\ urlParts[1].first \in {<< >>, SchemeHttp, SchemeHttps}
           /\ urlParts[1].second = << >>
           /\ urlParts[1].hostPath = urlParts[2].hostPath)
          => knormalized[1] = knormalized[2]

\* C15 witness: http://x.com/a#f?y=1 and https://x.com/a#f?z#f were normalized, both
\* to x.com/a#f
C15_Witness ==
    /\ kpc = "normalized"
    /\ urlParts[1] = [first |-> SchemeHttp, second |-> << >>,
                      hostPath |-> <<"x", ".", "c", "o", "m", "/", "a", "#", "f">>,
                      query |-> <<"?", "y", "=", "1">>]
    /\ urlParts[2] = [first |-> SchemeHttps, second |-> << >>,
                      hostPath |-> <<"x", ".", "c", "o", "m", "/", "a", "#", "f">>,
                      query |-> <<"?", "z", "#", "f">>]
    /\ knormalized[1] = <<"x", ".", "c", "o", "m", "/", "a", "#", "f">>
    /\ knormalized[2] = knormalized[1]

\* C16 as stated: normalization removes at most one leading http:// or https://; a
\* second scheme prefix after the removed one is kept; HTTP:// and ftp:// are kept
C16_OnePrefixCheck ==
    kpc # "input"
    => \A i \in {1, 2} :
          /\ urlParts[i].first \in {SchemeHttp, SchemeHttps}
             => knormalized[i] = urlParts[i].second \o urlParts[i].hostPath
          /\ urlParts[i].first \notin {<< >>, SchemeHttp, SchemeHttps}
             => knormalized[i] = urlParts[i].first \o urlParts[i].hostPath

\* C17 as stated: normalizing the result of AddProtocol gives back every normalized
\* URL
C17_RoundTripAll ==
    kpc \notin {"input", "normalized"}
    => \A i \in {1, 2} : renormalized[i] = knormalized[i]

\* C17: AddProtocol returns a normalized URL that begins with http:// or https://
\* unchanged, puts http:// before one that begins with localhost or 127.0.0.1 and
\* https:// before any other; normalizing its result gives back every normalized
\* URL that does not begin with http:// or https://
C17_AddProtocolReverses ==
    kpc \notin {"input", "normalized"}
    => \A i \in {1, 2} :
          LET n         == knormalized[i]
              hasScheme == \/ HasPrefix(n, <<"h", "t", "t", "p", ":", "/", "/">>)
                           \/ HasPrefix(n, <<"h", "t", "t", "p", "s", ":", "/", "/">>)
              local     == \/ HasPrefix(n, <<"l", "o", "c", "a", "l", "h", "o", "s", "t">>)
                           \/ HasPrefix(n, <<"1", "2", "7", ".", "0", ".", "0", ".", "1">>)
          IN  /\ hasScheme => fetchURL[i] = n
              /\ (~hasScheme /\ local)
                 => fetchURL[i] = <<"h", "t", "t", "p", ":", "/", "/">> \o n
              /\ (~hasScheme /\ ~local)
                 => fetchURL[i] = <<"h", "t", "t", "p", "s", ":", "/", "/">> \o n
              /\ ~hasScheme => renormalized[i] = n

\* C17 witness: AddProtocol was applied to localhost and to x.com/a, and to a
\* normalized URL that still begins with a scheme
C17_Witness ==
    /\ kpc = "fetch"
    /\ knormalized[2] = <<"l", "o", "c", "a", "l", "h", "o", "s", "t">>
    /\ fetchURL[2] = <<"h", "t", "t", "p", ":", "/", "/", "l", "o", "c", "a", "l", "h", "o", "s", "t">>
    /\ renormalized[2] = knormalized[2]
    /\ knormalized[1] = <<"h", "t", "t", "p", ":", "/", "/", "x", ".", "c", "o", "m", "/", "a">>
    /\ fetchURL[1] = knormalized[1]
    /\ renormalized[1] = <<"x", ".", "c", "o", "m", "/", "a">>

\* C18: when the store holds a page for the normalized URL at the store check, the
\* call ends there: no HTTP GET, no store write, the store unchanged, and unless the
\* read fails the stored page is returned with no error; a stored page is never
\* changed or removed by any later call
C18_HitNeverMutates ==
    [][ /\ (fpc = "read" /\ UrlToCrawledPageKey(fnormalizedURL) \in DOMAIN Pages)
           => /\ fpc' = "done"
              /\ Pages' = Pages
              /\ httpGets' = 0
              /\ pageWrites' = 0
              /\ fret'.err = NoErr
                 => \E pg \in fret'.page :
                       LET st == Pages[UrlToCrawledPageKey(fnormalizedURL)]
                       IN  /\ pg.Title = st.Title
                           /\ pg.Content = st.Content
                           /\ pg.DateTime = st.DateTime
        /\ \A k \in DOMAIN Pages : k \in DOMAIN Pages' /\ Pages'[k] = Pages[k]
      ]_vars

\* C18 witness: a third call for a URL fetched by the first call returned the page
\* stored then, without an HTTP GET and without a store write
C18_Witness ==
    /\ fpc = "done"
    /\ fcalls = 3
    /\ pageReads = 1 /\ httpGets = 0 /\ pageWrites = 0
    /\ fret.err = NoErr
    /\ now = 2
    /\ \E pg \in fret.page : pg.DateTime = 1 /\ pg.Content = <<"c", "1">>

\* C19: a call that met a store read error ended with the read error, no page, no
\* path, no HTTP GET and nothing written to the side file; a call that met a store
\* write error ended with the write error and no page although the content had been
\* fetched, and the store holds no page for the URL
C19_StoreErrorsAreHard ==
    fpc = "done"
    => /\ ffault = "read"
          => /\ fret = [page |-> {}, path |-> << >>,
                        err |-> "error getting crawled page from Datastore"]
             /\ pageReads = 1 /\ httpGets = 0 /\ pageWrites = 0 /\ fileWrites = 0
       /\ ffault = "write"
          => /\ fret = [page |-> {}, path |-> << >>,
                        err |-> "error saving crawled page to Datastore"]
             /\ fetched # {}
             /\ pageReads = 1 /\ httpGets = 1 /\ pageWrites = 1 /\ fileWrites = 0
             /\ UrlToCrawledPageKey(fnormalizedURL) \notin DOMAIN Pages

\* C19 witness: the content was fetched, the store write failed and the call
\* returned the write error
C19_Witness ==
    /\ fpc = "done"
    /\ ffault = "write"
    /\ fetched # {}
    /\ httpGets = 1
    /\ fret.page = {}
    /\ fret.err = "error saving crawled page to Datastore"

\* C20 as stated: a call in which the side file could not be created, opened or
\* written returned no error
C20_SideFileNeverFails ==
    (fpc = "done" /\ ffault \in {"mkdir", "open", "filewrite"}) => fret.err = NoErr

\* C27: of an LLM text with two sibling JSON objects the parser returns, with no
\* error, the span from the first { to the last } (both objects); the call then ends
\* with the converter's JSON error, no result, and no store write
C27_SiblingObjects ==
    \A r \in Requests :
        Len(jsonText[r]) > 3
        => /\ jsonText[r] = <<"{", "M1", "}", " ", "{", "M2", "}">>
           /\ jsonText[r] = parseJSONResponse(jsonText[r]).json
           /\ ~parseJSONResponse(jsonText[r]).err
           /\ pc[r] = "done"
           /\ ret[r] = [result |-> {}, err |-> "error parsing JSON"]
           /\ result[r] = {}
           /\ llmCalls[r] = 1
           /\ storeWrites[r] = 0
           /\ fault[r] = "none"

\* C27 witness: a call whose LLM answer held two sibling objects has ended with the
\* JSON error while the store is empty
C27_Witness ==
    \E r \in Requests :
        /\ jsonText[r] = <<"{", "M1", "}", " ", "{", "M2", "}">>
        /\ pc[r] = "done"
        /\ ret[r].err = "error parsing JSON"
        /\ DOMAIN AnalysisResults = {}

\* C23: VerifyValidMode returns the lower-cased mode and no error for every spelling of
\* a registered mode, and an "unknown mode" error with no mode for every other input,
\* the empty string included
C23_VerifyMode ==
    pfn = "VerifyValidMode"
    => LET input == pin[1]
       IN  /\ input \in {<<"j", "o", "k", "e">>, <<"J", "O", "K", "E">>, <<"J", "o", "k", "e">>}
              => pout = [mode |-> <<"j", "o", "k", "e">>, err |-> NoErr]
           /\ input \in {<<"t", "e", "s", "t">>, <<"T", "E", "S", "T">>}
              => pout = [mode |-> <<"t", "e", "s", "t">>, err |-> NoErr]
           /\ input \in {<< >>, <<"x">>, <<" ", "j", "o", "k", "e">>, <<"j", "o", "k", "e", "s">>}
              => pout = [mode |-> << >>, err |-> "unknown mode"]
           /\ pout.err = NoErr <=> pout.mode \in DOMAIN PromptTemplates
           /\ pout.err \in {NoErr, "unknown mode"}

C23_Witness ==
    /\ pfn = "VerifyValidMode"
    /\ pin = << <<"J", "O", "K", "E">> >>
    /\ pout = [mode |-> AnalysisModeJoke, err |-> NoErr]

\* C24: fingerprints taken of the same template text are equal, whatever the mode and
\* whichever deployment took them; each is taken of the template registered at the
\* time of its call; a mode without a registered template gets an error
C24_FingerprintOfTemplate ==
    /\ \A a, b \in fpLog : a.template = b.template => a.fp = b.fp /\ a.err = b.err
    /\ \A a \in fpLog :
          /\ a.err <=> a.mode \notin {AnalysisModeJoke, AnalysisModeTest}
          /\ a.err <=> a.template = {}
          /\ a.err => a.fp = 0

C24_Witness ==
    /\ \E a, b \in fpLog :
          /\ a.mode = AnalysisModeJoke /\ b.mode = AnalysisModeTest
          /\ a.edits = 0 /\ b.edits = 1
          /\ a.template = {JokePromptTemplate} /\ b.template = a.template
          /\ a.fp = b.fp /\ ~a.err
    /\ \E a, b \in fpLog :
          /\ a.mode = b.mode /\ a.template # b.template /\ a.fp # b.fp
    /\ \E a \in fpLog : a.mode = UnknownMode /\ a.err

\* C25: GeneratePrompt inserts the title whole and then the content: a content of more
\* than 8000 characters as its first 8000 characters followed by the marker, a content
\* of at most 8000 characters unchanged; an unregistered mode gets an error and no
\* prompt.  Characters are counted as UTF-8 sequences: the byte A9 continues the
\* character its predecessor C3 began.
C25_CapsContent ==
    pfn = "GeneratePrompt"
    => LET mode    == pin[1]
           title   == pin[2]
           content == pin[3]
           Chars(k) == Cardinality({i \in 1..k : content[i] # "A9"})
           whole(k) == k = Len(content) \/ content[k + 1] # "A9"
           cut == CHOOSE k \in 8000..Len(content) : Chars(k) = 8000 /\ whole(k)
           prefix == IF mode = AnalysisModeJoke THEN <<"J", ":">> ELSE <<"T", ":">>
       IN  IF mode \notin {AnalysisModeJoke, AnalysisModeTest}
           THEN pout = [prompt |-> << >>, err |-> TRUE]
           ELSE /\ ~pout.err
                /\ pout.prompt =
                       prefix \o title \o <<" ">> \o
                       (IF Chars(Len(content)) > 8000
                        THEN SubSeq(content, 1, cut) \o
                             <<".", ".", ".", " ", "[", "c", "o", "n", "t", "e", "n", "t",
                               " ", "t", "r", "u", "n", "c", "a", "t", "e", "d", "]">>
                        ELSE content)

\* C26: parseJSONResponse returns the text from the first { to the last } of the LLM
\* text, and fails exactly when the text has no {, no }, or its first { does not come
\* before its last }; the empty text, white space, "{", "}" and "} {" fail, fenced and
\* commented objects come back bare
C26_ExtractJSON ==
    pfn = "parseJSONResponse"
    => LET raw    == pin[1]
           opens  == {i \in 1..Len(raw) : raw[i] = "{"}
           closes == {i \in 1..Len(raw) : raw[i] = "}"}
           first  == CHOOSE i \in opens : \A j \in opens : i <= j
           last   == CHOOSE i \in closes : \A j \in closes : i >= j
           fails  == opens = {} \/ closes = {} \/ first >= last
       IN  /\ pout.err <=> fails
           /\ fails => pout.json = << >>
           /\ ~fails => pout.json = SubSeq(raw, first, last)
           /\ raw \in {<< >>, <<" ", " ", "\n", "\t", " ">>, <<"{">>, <<"}">>,
                       <<"}", " ", "{">>, <<"n", "o">>}
              => pout.err
           /\ raw \in {<<Backquote, Backquote, Backquote, "j", "s", "o", "n", "\n",
                         "{", "M1", "}", "\n", Backquote, Backquote, Backquote>>,
                       <<"a", ":", " ", "{", "M1", "}">>,
                       <<"a", " ", "{", "M1", "}", " ", "z">>}
              => pout = [json |-> <<"{", "M1", "}">>, err |-> FALSE]

C26_Witness ==
    /\ pfn = "parseJSONResponse"
    /\ pin = << FenceJson \o <<"\n", " ", "{", "M1", "}", " ", "\n">> \o Fence >>
    /\ pout = [json |-> <<"{", "M1", "}">>, err |-> FALSE]

C21_ReadAfterWrite ==
    /\ sop = "ReadCrawledPage" /\ ~sret.err
       => LET key == UrlToCrawledPageKey(sarg[1])
          IN  IF key \in DOMAIN pageLog
              THEN /\ sret.found
                   /\ sret.page =
                         {[URL      |-> pageLog[key].url,
                           Title    |-> pageLog[key].title,
                           Content  |-> pageLog[key].content,
                           DateTime |-> IF pageLog[key].datetime = 0
                                        THEN pageLog[key].at ELSE pageLog[key].datetime]}
              ELSE ~sret.found /\ sret.page = {}
    /\ sop = "ReadAnalysisResult" /\ ~sret.err
       => LET keyName == UrlToAnalysisKey(sarg[1], sarg[2])
          IN  IF keyName \in DOMAIN analysisLog
              THEN sret.found /\ sret.result = {analysisLog[keyName]}
              ELSE ~sret.found /\ sret.result = {}

\* C21, amended: as above, except that the page read carries the URL of the read call;
\* title, content and timestamp are those of the last successful write under the key
C21_ReadAfterWriteByUrl ==
    /\ sop = "ReadCrawledPage" /\ ~sret.err
       => LET key == UrlToCrawledPageKey(sarg[1])
          IN  IF key \in DOMAIN pageLog
              THEN /\ sret.found
                   /\ sret.page =
                         {[URL      |-> sarg[1],
                           Title    |-> pageLog[key].title,
                           Content  |-> pageLog[key].content,
                           DateTime |-> IF pageLog[key].datetime = 0
                                        THEN pageLog[key].at ELSE pageLog[key].datetime]}
              ELSE ~sret.found /\ sret.page = {}
    /\ sop = "ReadAnalysisResult" /\ ~sret.err
       => LET keyName == UrlToAnalysisKey(sarg[1], sarg[2])
          IN  IF keyName \in DOMAIN analysisLog
              THEN sret.found /\ sret.result = {analysisLog[keyName]}
              ELSE ~sret.found /\ sret.result = {}
    /\ sop = "WriteCrawledPage" /\ ~sret.err
       => \E pg \in sret.page :
             /\ Pages[UrlToCrawledPageKey(sarg[1])] = pg
             /\ pg.URL = sarg[1] /\ pg.Title = sarg[2] /\ pg.Content = sarg[3]
             /\ pg.DateTime = IF sarg[4] = 0 THEN now - 1 ELSE sarg[4]

C21_Witness ==
    LET key == <<"x", ".", "c", "o", "m", "_", "a">>
    IN  /\ sop = "ReadCrawledPage"
        /\ sarg = << <<"x", ".", "c", "o", "m", "/", "a">> >>
        /\ key \in DOMAIN pageLog
        /\ pageLog[key].replaced
        /\ pageLog[key].url = <<"x", ".", "c", "o", "m", "/", "a", "?", "y", "=", "1">>
        /\ pageLog[key].datetime = 0
        /\ pageLog[key].at = 2
        /\ sret.found
        /\ \E pg \in sret.page :
              /\ pg.URL = <<"x", ".", "c", "o", "m", "/", "a">>
              /\ pg.DateTime = 2
              /\ pg.Title = pageLog[key].title

\* C22: GetCrawledPagesSince returns each stored page whose DateTime is at or after
\* oldestDate once, and no other page, the newest first
C22_ListSince ==
    fdop = "GetCrawledPagesSince" /\ ~fdret.err
    => LET oldest == fdarg[1]
           pages  == fdret.pages
       IN  /\ \A k \in DOMAIN Pages :
                 Pages[k].DateTime >= oldest
                 <=> \E i \in 1..Len(pages) : pages[i] = Pages[k]
           /\ \A i \in 1..Len(pages) : \E k \in DOMAIN Pages : pages[i] = Pages[k]
           /\ \A i, j \in 1..Len(pages) : i # j => pages[i] # pages[j]
           /\ \A i, j \in 1..Len(pages) : i < j => pages[i].DateTime >= pages[j].DateTime

C22_Witness ==
    /\ fdop = "GetCrawledPagesSince"
    /\ fdarg = <<2>>
    /\ ~fdret.err
    /\ Len(fdret.pages) = 3
    /\ fdret.pages[1].DateTime = 3
    /\ fdret.pages[3].DateTime = 2
    /\ \E k \in DOMAIN Pages : Pages[k].DateTime = 1

C30_FeedMembership ==
    fdop = "GetFeed"
    => LET oldest == fdarg[2]
           mode   == IF fdarg[3] = <<"J", "O", "K", "E">> THEN <<"j", "o", "k", "e">>
                     ELSE fdarg[3]
           items  == fdret.items
       IN  /\ fdret.err # NoErr => items = << >>
           /\ \A i \in 1..Len(items) :
                 \E k \in DOMAIN Pages :
                    /\ Pages[k].URL = items[i].URL
                    /\ Pages[k].Title = items[i].Title
                    /\ Pages[k].DateTime >= oldest
                    /\ UrlToAnalysisKey(Pages[k].URL, mode) \in DOMAIN AnalysisResults
                    /\ AnalysisResults[UrlToAnalysisKey(Pages[k].URL, mode)].JokePercentage
                          = {items[i].JokeConfidence}
           /\ \A i, j \in 1..Len(items) : i # j => items[i].URL # items[j].URL

C30_Witness ==
    /\ fdop = "GetFeed"
    /\ fdarg = <<3, 2, <<"J", "O", "K", "E">>, {}, FALSE>>
    /\ fdret = [items |-> << [URL |-> <<"x", ".", "c", "o", "m", "/", "c">>,
                              Title |-> <<"C">>, JokeConfidence |-> 30] >>,
                err |-> NoErr]
    /\ Cardinality(DOMAIN Pages) = 4
    /\ Pages[<<"x", ".", "c", "o", "m", "_", "a">>].DateTime = 1
    /\ <<"x", ".", "c", "o", "m", "_", "a", ":", "j", "o", "k", "e">> \in DOMAIN AnalysisResults
    /\ <<"x", ".", "c", "o", "m", "_", "b", ":", "j", "o", "k", "e">> \in DOMAIN AnalysisResults
    /\ <<"x", ".", "c", "o", "m", "_", "d", ":", "t", "e", "s", "t">> \in DOMAIN AnalysisResults
    /\ <<"x", ".", "c", "o", "m", "_", "d", ":", "j", "o", "k", "e">> \notin DOMAIN AnalysisResults

\* C31: a GetFeed call with an unknown mode returns the unknown-mode error and no
\* items, and has made no call to the store: no listing, no analysis read
C31_UnknownModeBeforeIO ==
    (fdop = "GetFeed" /\ fdarg[3] = UnknownMode)
    => /\ fdret = [items |-> << >>, err |-> "unknown mode"]
       /\ fdio = [lists |-> 0, reads |-> 0]

\* C37: every item of the feed comes from a stored result whose PromptFingerprint is
\* the fingerprint of the template now registered for the mode of the query
C37_FeedItemsValid ==
    (fdop = "GetFeed" /\ fdret.err = NoErr)
    => LET mode == IF fdarg[3] = <<"J", "O", "K", "E">> THEN <<"j", "o", "k", "e">>
                   ELSE fdarg[3]
       IN  \A i \in 1..Len(fdret.items) :
              LET keyName == UrlToAnalysisKey(fdret.items[i].URL, mode)
              IN  /\ keyName \in DOMAIN AnalysisResults
                  /\ AnalysisResults[keyName].PromptFingerprint
                        = Fnv64a(FnvOffset64, PromptTemplates[mode].Template)

\* C39: a step that is a GetFeed call changes neither store and calls no LLM; when the
\* listing fails it returns the store's error, no items, and reads no analysis result;
\* when the listing succeeds and the mode is known it returns no error even if
\* analysis reads fail: the pages whose read failed are left out, and, with no cut by
\* maxArticles, every other page of the window that has a percentage is an item
C39_FeedStoreErrors ==
    [][fdop' = "GetFeed" /\ feedVars' # feedVars
       => /\ UNCHANGED <<Pages, AnalysisResults, llmCalls, storeWrites, pageWrites, swrites>>
          /\ LET maxArticles == fdarg'[1]
                 oldest  == fdarg'[2]
                 known   == fdarg'[3] \in {<<"J", "O", "K", "E">>, <<"t", "e", "s", "t">>}
                 mode    == IF fdarg'[3] = <<"J", "O", "K", "E">> THEN <<"j", "o", "k", "e">>
                            ELSE fdarg'[3]
                 failing == fdarg'[4]
                 GetAllError == fdarg'[5]
                 items   == fdret'.items
                 remaining ==
                     {k \in DOMAIN Pages :
                         /\ Pages[k].DateTime >= oldest
                         /\ Pages[k].URL \notin failing
                         /\ UrlToAnalysisKey(Pages[k].URL, mode) \in DOMAIN AnalysisResults
                         /\ AnalysisResults[UrlToAnalysisKey(Pages[k].URL, mode)]
                               .JokePercentage # {}}
             IN  /\ GetAllError
                    => fdret' = [items |-> << >>, err |-> "store error"] /\ fdio'.reads = 0
                 /\ ~GetAllError /\ known
                    => /\ fdret'.err = NoErr
                       /\ \A i \in 1..Len(items) : items[i].URL \notin failing
                       /\ Cardinality(remaining) <= maxArticles
                          => \A k \in remaining :
                                \E i \in 1..Len(items) : items[i].URL = Pages[k].URL
                       /\ fdio'.reads = Cardinality({k \in DOMAIN Pages :
                                                        Pages[k].DateTime >= oldest})]_vars

C39_Witness ==
    /\ fdop = "GetFeed"
    /\ fdarg[4] = {<<"x", ".", "c", "o", "m", "/", "b">>}
    /\ ~fdarg[5]
    /\ fdret.err = NoErr
    /\ Len(fdret.items) = 2
    /\ fdret.items[1].JokeConfidence = 80
    /\ fdret.items[2].JokeConfidence = 50
    /\ <<"x", ".", "c", "o", "m", "_", "b", ":", "j", "o", "k", "e">> \in DOMAIN AnalysisResults
    /\ AnalysisResults[<<"x", ".", "c", "o", "m", "_", "b", ":", "j", "o", "k", "e">>]
           .JokePercentage = {90}
    /\ fdio = [lists |-> 1, reads |-> 4]

\* C38: trimming and fence removal do not change what parseJSONResponse gives: it
\* fails exactly when the search for the first { and the last } fails on the raw
\* text itself, and otherwise returns the raw text from its first { to its last }
C38_RawSpan ==
    pfn = "parseJSONResponse"
    => LET rawResponse == pin[1]
           startIdx == Index(rawResponse, "{")
           endIdx   == LastIndex(rawResponse, "}")
       IN  pout = IF startIdx = 0 \/ endIdx = 0 \/ startIdx >= endIdx
                  THEN [json |-> << >>, err |-> TRUE]
                  ELSE [json |-> SubSeq(rawResponse, startIdx, endIdx), err |-> FALSE]

C38_Witness ==
    /\ pfn = "parseJSONResponse"
    /\ pin = << FenceJson \o <<" ", "{", "}">> \o Fence >>
    /\ pout = [json |-> <<"{", "}">>, err |-> FALSE]

\* C34: no step of fetching, analyzing or querying the feed removes a key from the
\* page store or from the analysis store; an entry that changes is the one under the
\* key the running call writes, every other entry keeps its value
C34_NoDelete ==
    [][/\ DOMAIN Pages \subseteq DOMAIN Pages'
       /\ DOMAIN AnalysisResults \subseteq DOMAIN AnalysisResults'
       /\ \A k \in DOMAIN Pages :
             Pages'[k] # Pages[k]
             => fpc = "store" /\ k = UrlToCrawledPageKey(fnormalizedURL)
       /\ \A k \in DOMAIN AnalysisResults :
             AnalysisResults'[k] # AnalysisResults[k]
             => pc[1] = "write" /\ k = UrlToAnalysisKey(page[1].URL, reqMode[1])]_vars

C34_Witness ==
    LET keyName == <<"x", ".", "c", "o", "m", "_", "a", "_", "b", ":", "j", "o", "k", "e">>
    IN  /\ <<"x", ".", "c", "o", "m", "_", "a", "_", "b">> \in DOMAIN Pages
        /\ keyName \in DOMAIN AnalysisResults
        /\ AnalysisResults[keyName].JokePercentage = {100}
        /\ AnalysisResults[keyName].PromptFingerprint
              = GeneratePromptFingerprint(AnalysisModeJoke).fp
        /\ edits = 1
        /\ fdop = "GetFeed"
        /\ fdret.err = NoErr
        /\ Len(fdret.items) = 1
        /\ fdret.items[1].JokeConfidence = 85

\* C35: the cache write of an analyze call leaves the crawled pages unchanged and
\* changes what ReadAnalysisResult finds for no URL with another normalized URL and
\* for no other mode of its own URL
C35_OnlyOwnEntry ==
    [][pc[1] = "write" /\ pc'[1] = "done"
       => /\ Pages' = Pages
          /\ \A url \in PipelineUrls, mode \in {AnalysisModeJoke, AnalysisModeTest} :
                (NormalizeURL(url) # NormalizeURL(page[1].URL) \/ mode # reqMode[1])
                => ReadAnalysisResult(FALSE, FALSE, NormalizeURL(url), mode)'
                      = ReadAnalysisResult(FALSE, FALSE, NormalizeURL(url), mode)]_vars

C32_BatchFetch ==
    crun = "rss" /\ cpc # "idle" /\ crss.err # "error parsing RSS feed"
    => LET most    == IF cmax < 0 THEN 0 ELSE cmax
           limit   == IF Len(citems) < most THEN Len(citems) ELSE most
           seen    == IF cpc = "rss" THEN ci - 1 ELSE limit
           hasLink(link) == link # NoLink
           ok(a)   == a.err = NoErr
           bad(a)  == a.err # NoErr
           succeeded == SelectSeq(cattempts, ok)
           failures  == SelectSeq(cattempts, bad)
       IN  /\ seen <= limit
           /\ Len(cattempts) <= most
           /\ [k \in 1..Len(cattempts) |-> cattempts[k].url]
                 = SelectSeq(SubSeq(citems, 1, seen), hasLink)
           /\ Len(cpages) = Len(succeeded)
           /\ \A k \in 1..Len(cpages) : cpages[k].URL = NormalizeURL(succeeded[k].url)
           /\ cpc # "rss"
              => /\ Len(failures) = 0 => crss = [pages |-> cpages, err |-> NoErr]
                 /\ Len(failures) > 0 /\ Len(succeeded) > 0
                    => crss = [pages |-> cpages, err |-> "partial success"]
                 /\ Len(failures) > 0 /\ Len(succeeded) = 0
                    => crss.pages = << >> /\ crss.err # NoErr

C32_Witness ==
    /\ crun = "rss"
    /\ cpc = "analyze"
    /\ citems = <<RssLinkA, NoLink, RssLinkB>>
    /\ cmax = 3
    /\ Len(cattempts) = 2
    /\ cattempts[1].url = RssLinkA /\ cattempts[1].err # NoErr
    /\ cattempts[2] = [url |-> RssLinkB, err |-> NoErr]
    /\ crss.err = "partial success"
    /\ Len(crss.pages) = 1
    /\ crss.pages[1].URL = <<"x", ".", "c", "o", "m", "/", "b">>

\* C33: a run on an RSS feed calls Analyze on the pages FetchRSSArticles returned, each
\* once and in that order, goes on after a failed analysis and ends normally,
\* displaying the results of the analyses that succeeded; it makes no analysis when no
\* page was fetched.  A run on one URL ends with a failure and without an analysis
\* when the fetch fails, analyzes the fetched page once, and ends with a failure when
\* that analysis fails
C33_AnalyzeEachOnce ==
    LET analyzedPages == [k \in 1..Len(canalyzed) |-> canalyzed[k].page]
    IN  /\ \A k \in 1..Len(canalyzed) : canalyzed[k].displayed <=> canalyzed[k].err = NoErr
        /\ crun = "rss"
           => /\ cpc \in {"idle", "rss"} => canalyzed = << >>
              /\ cpc = "analyze" => analyzedPages = SubSeq(crss.pages, 1, ci - 1)
              /\ cpc = "exit" /\ cexit = "ok"
                 => analyzedPages = crss.pages /\ crss.pages = cpages /\ cpages # << >>
              /\ cpc = "exit" /\ cexit = "fatal"
                 => canalyzed = << >> /\ crss.pages = << >>
        /\ crun = "url"
           => /\ cpc = "url" => canalyzed = << >> /\ Len(cpages) = 1 /\ cfetchErrors = << >>
              /\ cpc = "exit" /\ cfetchErrors # << >>
                 => cexit = "fatal" /\ canalyzed = << >> /\ cpages = << >>
              /\ cpc = "exit" /\ cfetchErrors = << >>
                 => /\ analyzedPages = cpages
                    /\ Len(canalyzed) = 1
                    /\ cexit = IF canalyzed[1].err = NoErr THEN "ok" ELSE "fatal"

C33_Witness ==
    /\ crun = "rss"
    /\ cpc = "exit"
    /\ cexit = "ok"
    /\ Len(crss.pages) = 2
    /\ Len(canalyzed) = 2
    /\ canalyzed[1].page = crss.pages[1] /\ canalyzed[1].err # NoErr
    /\ canalyzed[2].page = crss.pages[2] /\ canalyzed[2].displayed
    /\ crss.pages[1].URL # crss.pages[2].URL

====
